---- MODULE Spec2Model ----
(***************************************************************************)
(* A model of crabshell: the packer's payload blob codec                   *)
(* (packer/src/main.rs), the loader's blob parser and its three JNI entry  *)
(* points guarded by DEX_LOAD_MARKER (loader/.../lib.rs).                  *)
(*                                                                         *)
(* Bytes are integers 0..255, byte strings are sequences of bytes, names   *)
(* are the UTF-8 bytes of the Rust String.                                 *)
(***************************************************************************)
EXTENDS Integers, Sequences, FiniteSets, TLC

VARIABLES
    \* ---- codec harness (packer -> blob -> loader parser) ----
    phase,        \* "input" | "packed" | "parsed"
    inEntries,    \* the plain entries handed to the packer: <<[name, plain]>>
    encEntries,   \* the packer's Vec<(String, Vec<u8>, [u8; 12])>
    packedBlob,   \* build_payload_blob's output
    blob,         \* the bytes handed to decrypt_payload
    tamper,       \* what was done to packedBlob to obtain blob
    result,       \* decrypt_payload's return value on blob
    \* ---- the loader process ----
    apk,          \* the installed archive: [blob, hash, certOk] (payload entry,
                  \* PAYLOAD_HASH, the certificate matches EXPECTED_SIGNATURE_HASH)
    marker,       \* DEX_LOAD_MARKER
    pc,           \* per thread: where its entry-point call stands ("idle": no call)
    entry,        \* per thread: the entry point it called
    pending,      \* per thread: a Java exception is pending in its JNIEnv
    payload,      \* per thread: the Vec<(String, Vec<u8>)> extract_payload returned
    \* ---- history of the loader process ----
    calls,        \* entry-point calls started
    outcome,      \* per thread: "running", or how its last call returned
    touched,      \* per thread: archive reads, file writes and class-loader calls
                  \* made by its current (or last) call
    batchUnset,   \* the marker was unset when the current batch of overlapping
                  \* calls began
    batchWins,    \* compare-and-sets won in the current batch
    batchClears,  \* clear_dex_load_marker calls in the current batch
    splices,      \* successful addDexPath calls on the target class loader
    succeeded,    \* calls that completed the startup algorithm without error
    leaked,       \* some call returned with a Java exception pending
    \* ---- one run of the packer ----
    pkPhase,              \* where main stands ("idle": no run)
    args,                 \* the command line: [keep_class, keep_prefix, keep_lib,
                          \* patched_manifest, resources]
    target,               \* the target archive: <<[name, data]>> in zip order
    bootstrap,            \* [dex: the bootstrap archive's entries, abis: the ABI
                          \* directories of bootstrap_lib_dir that hold libshell.so]
    payload_entries,      \* what collect_and_encrypt_payload_entries returned
    payload_blob,         \* build_payload_blob's output
    retained_dex_entries, \* repack_target_with_bootstrap's Vec<(usize, Vec<u8>)>
    output,               \* the entries written to the output archive, in order
    outputCreated,        \* File::create(output_apk) was executed
    pkError,              \* "none", or the error main returned
    \* ---- one launch of the loader on a device ----
    ldPhase,      \* where the entry point stands past its compare-and-set
                  \* ("idle": no launch)
    ldAbi,        \* get_current_abi(): the ABI the library was compiled for
    ldBlob,       \* the bytes of assets/kapp_payload.bin in the installed archive
    ldTamper,     \* what happened to those bytes since the packer wrote them
    file_list,    \* the Vec<(String, Vec<u8>)> extract_payload returned
    fsDex,        \* <cache>/dex_landing: payload_<i>.dex |-> <<>> (no such file)
                  \* or <<[data, readonly]>>
    fsLibs,       \* <cache>/native_libs: the files [name, data]
    fsAssets,     \* <data_dir>/files/kapp_assets.zip: <<>> (no such file) or
                  \* <<its entries>>
    dex_paths,    \* load_file_landing's dex_paths: i stands for payload_<i>.dex
    ldWrites,     \* the files this launch created: [dir, name, data]
    ldCalls,      \* the methods this launch called on the target class loader
    ldError,      \* "none", or why the entry point gave up
    \* ---- the GUI driver (crabshell-gui/src-tauri/src/main.rs) ----
    process,      \* HardeningState.process: 0 (None) or the child it holds
    child,        \* per child process: "none" (not spawned), "running",
                  \* "exited" (terminated, not waited for), "killed", "reaped"
    gpc,          \* per command thread: where its start_hardening call stands
    spawned,      \* per command thread: the Child its call spawned and has not
                  \* stored yet (0: none)
    monitor,      \* per child: the monitor thread spawned along with it
    startResult,  \* per command thread: what its last start_hardening returned
    spawnedWhileRunning,  \* a child was spawned while another one was running
    dropped       \* the children that left the process slot while running

codecVars == <<phase, inEntries, encEntries, packedBlob, blob, tamper, result>>

loaderVars == <<apk, marker, pc, entry, pending, payload>>

historyVars == <<calls, outcome, touched, batchUnset, batchWins, batchClears,
                 splices, succeeded, leaked>>

packerVars == <<pkPhase, args, target, bootstrap, payload_entries, payload_blob,
                retained_dex_entries, output, outputCreated, pkError>>

landingVars == <<ldPhase, ldAbi, ldBlob, ldTamper, file_list, fsDex, fsLibs, fsAssets,
                 dex_paths, ldWrites, ldCalls, ldError>>

guiVars == <<process, child, gpc, spawned, monitor, startResult,
             spawnedWhileRunning, dropped>>

vars == <<codecVars, loaderVars, historyVars, packerVars, landingVars, guiVars>>

-----------------------------------------------------------------------------
(* Bounds of the model *)

\* the threads that run the GUI's commands
NumCommandThreads == 2

\* the most child processes the GUI spawns
MaxChildren == 2

\* the longest entry list the packer is handed
MaxEntries == 2

\* threads of the process that call loader entry points
NumThreads == 2

\* entry-point calls made in one run of the process
MaxCalls == 3

-----------------------------------------------------------------------------
(* Program constants *)

FOOTER_LEN == 9
NONCE_LEN == 12
TAG_LEN == 16
KEY_LEN == 32

\* b"SHELL"
MAGIC_SHELL == <<83, 72, 69, 76, 76>>

\* config.defaults.rs: the packer's and the loader's key of one build
AES_KEY == [i \in 1..KEY_LEN |-> 0]
get_aes_key == [i \in 1..KEY_LEN |-> 0]

-----------------------------------------------------------------------------
(* Byte-string helpers *)

Take(s, n) == SubSeq(s, 1, n)
Drop(s, n) == SubSeq(s, n + 1, Len(s))

\* u16::to_le_bytes of (n as u16)
U16LE(n) == <<n % 256, (n \div 256) % 256>>

\* faulty variant of U32LE: u32::to_be_bytes
U32BE(n) == <<(n \div 16777216) % 256, (n \div 65536) % 256, (n \div 256) % 256, n % 256>>

\* u32::to_le_bytes of (n as u32): the four low bytes, higher bits dropped
U32LE(n) == <<n % 256, (n \div 256) % 256, (n \div 65536) % 256, (n \div 16777216) % 256>>

\* u16::from_le_bytes
U16FromLE(b) == b[1] + 256 * b[2]

\* u32::from_le_bytes, kept as two 16-bit halves: value = lo + 65536 * hi
\* (TLC's integers are 32-bit signed and cannot hold every u32)
U32FromLE(b) == [lo |-> b[1] + 256 * b[2], hi |-> b[3] + 256 * b[4]]

\* u64::checked_sub(x, v) for x < 65536 (every buffer of the model is shorter)
\* and v a two-halves value: -1 stands for None
CheckedSub(x, v) == IF v.hi = 0 /\ v.lo <= x THEN x - v.lo ELSE -1

\* str::starts_with / ends_with on byte strings
StartsWith(s, p) == Len(p) <= Len(s) /\ Take(s, Len(p)) = p
EndsWith(s, p) == Len(p) <= Len(s) /\ Drop(s, Len(s) - Len(p)) = p

\* String::from_utf8's validity check (well-formed UTF-8, RFC 3629)
RECURSIVE Utf8ValidFrom(_, _)
Utf8ValidFrom(s, i) ==
    IF i > Len(s) THEN TRUE
    ELSE LET b == s[i]
             Cont(k) == k <= Len(s) /\ s[k] >= 128 /\ s[k] <= 191
             In(k, lo, hi) == k <= Len(s) /\ s[k] >= lo /\ s[k] <= hi
         IN  IF b < 128 THEN Utf8ValidFrom(s, i + 1)
             ELSE IF b >= 194 /\ b <= 223
                  THEN Cont(i + 1) /\ Utf8ValidFrom(s, i + 2)
             ELSE IF b = 224
                  THEN In(i + 1, 160, 191) /\ Cont(i + 2) /\ Utf8ValidFrom(s, i + 3)
             ELSE IF b = 237
                  THEN In(i + 1, 128, 159) /\ Cont(i + 2) /\ Utf8ValidFrom(s, i + 3)
             ELSE IF b >= 225 /\ b <= 239
                  THEN Cont(i + 1) /\ Cont(i + 2) /\ Utf8ValidFrom(s, i + 3)
             ELSE IF b = 240
                  THEN In(i + 1, 144, 191) /\ Cont(i + 2) /\ Cont(i + 3)
                       /\ Utf8ValidFrom(s, i + 4)
             ELSE IF b >= 241 /\ b <= 243
                  THEN Cont(i + 1) /\ Cont(i + 2) /\ Cont(i + 3)
                       /\ Utf8ValidFrom(s, i + 4)
             ELSE IF b = 244
                  THEN In(i + 1, 128, 143) /\ Cont(i + 2) /\ Cont(i + 3)
                       /\ Utf8ValidFrom(s, i + 4)
             ELSE FALSE

Utf8Valid(s) == Utf8ValidFrom(s, 1)

-----------------------------------------------------------------------------
(* AES-256-GCM, as the aes_gcm crate's Aead::encrypt / Aead::decrypt are     *)
(* used: ciphertext = CTR-encrypted data followed by a 16-byte tag over     *)
(* (key, nonce, ciphertext), empty associated data.  The block cipher is    *)
(* replaced by a small keyed stream and keyed checksum with the same        *)
(* interface: encryption is length-preserving plus TAG_LEN, invertible, and *)
(* the tag depends on every byte of the nonce and of the ciphertext.        *)

KeyStream(key, nonce, i) ==
    (key[((i - 1) % KEY_LEN) + 1] + 3 * nonce[((i - 1) % NONCE_LEN) + 1]
       + nonce[1] + 17 * i + 91) % 256

\* the weighted sum of the bytes of m at positions j, j+16, j+32, ...
RECURSIVE TagFold(_, _, _)
TagFold(m, j, k) ==
    IF j + TAG_LEN * k > Len(m) THEN 0
    ELSE (m[j + TAG_LEN * k] * (2 * k + 1) + TagFold(m, j, k + 1)) % 256

GcmTag(key, nonce, ct) ==
    LET m == nonce \o ct
    IN  [j \in 1..TAG_LEN |->
            (key[j] + 29 * j + 11 * Len(ct) + TagFold(m, j, 0)) % 256]

GcmEncrypt(key, nonce, data) ==
    LET ct == [i \in 1..Len(data) |-> (data[i] + KeyStream(key, nonce, i)) % 256]
    IN  ct \o GcmTag(key, nonce, ct)

\* faulty variant of GcmDecrypt: the tag is stripped but not compared
GcmDecryptUnchecked(key, nonce, buf) ==
    IF Len(buf) < TAG_LEN THEN [ok |-> FALSE, pt |-> <<>>]
    ELSE LET n == Len(buf) - TAG_LEN
         IN  [ok |-> TRUE,
              pt |-> [i \in 1..n |-> (buf[i] + 256 - KeyStream(key, nonce, i)) % 256]]

\* Aead::decrypt: Err on a buffer shorter than the tag or on a tag mismatch
GcmDecrypt(key, nonce, buf) ==
    IF Len(buf) < TAG_LEN THEN [ok |-> FALSE, pt |-> <<>>]
    ELSE LET n == Len(buf) - TAG_LEN
             ct == Take(buf, n)
             tag == Drop(buf, n)
         IN  IF tag = GcmTag(key, nonce, ct)
             THEN [ok |-> TRUE,
                   pt |-> [i \in 1..n |-> (ct[i] + 256 - KeyStream(key, nonce, i)) % 256]]
             ELSE [ok |-> FALSE, pt |-> <<>>]

-----------------------------------------------------------------------------
(* Packer: encrypt_payload and build_payload_blob *)

\* encrypt_payload(data): nonce_bytes is what rand::thread_rng().fill produced
encrypt_payload(data, nonce_bytes) ==
    [enc |-> GcmEncrypt(AES_KEY, nonce_bytes, data), nonce |-> nonce_bytes]

\* the first loop of build_payload_blob: the ciphertexts, in entry order
RECURSIVE ConcatCiphertexts(_, _)
ConcatCiphertexts(entries, i) ==
    IF i > Len(entries) THEN <<>>
    ELSE entries[i].enc \o ConcatCiphertexts(entries, i + 1)

\* faulty variant of MetadataRecord: cipher_len holds the plaintext's length
MetadataRecordPlainLen(e) ==
    U16LE(Len(e.name)) \o e.name \o U32LE(Len(e.enc) - TAG_LEN) \o e.nonce

\* one metadata record: [name_len u16][name][cipher_len u32][nonce]
MetadataRecord(e) ==
    U16LE(Len(e.name)) \o e.name \o U32LE(Len(e.enc)) \o e.nonce

RECURSIVE ConcatRecords(_, _)
ConcatRecords(entries, i) ==
    IF i > Len(entries) THEN <<>>
    ELSE MetadataRecord(entries[i]) \o ConcatRecords(entries, i + 1)

BuildMetadata(entries) == U32LE(Len(entries)) \o ConcatRecords(entries, 1)

\* faulty variant of build_payload_blob: the footer holds payload_blob.len()
build_payload_blob_BlobLen(entries) ==
    LET metadata == BuildMetadata(entries)
        body == ConcatCiphertexts(entries, 1) \o metadata
    IN  body \o U32LE(Len(body)) \o MAGIC_SHELL

build_payload_blob(entries) ==
    LET metadata == BuildMetadata(entries)
    IN  ConcatCiphertexts(entries, 1) \o metadata \o U32LE(Len(metadata)) \o MAGIC_SHELL

-----------------------------------------------------------------------------
(* Loader: decrypt_payload *)

\* Err(...) of decrypt_payload.  kind names the failing statement:
\*   "too_small"  "Payload too small"              "bad_magic"  ERR_NO_PAYLOAD
\*   "bad_meta"   "Invalid metadata size"          "eof"        read_exact failed
\*   "utf8"       String::from_utf8 failed         "bad_offset" "Invalid payload offset"
\*   "crypto"     "Decryption failed for <name>"
\* metaRead: the metadata block was read; decrypts: calls of cipher.decrypt made
Failure(kind, metaRead, decrypts) ==
    [kind |-> kind, entries |-> <<>>, metaRead |-> metaRead, decrypts |-> decrypts]

FormatErrors == {"too_small", "bad_magic", "bad_meta", "eof", "utf8", "bad_offset"}

\* the loop `for _ in 0..num_files` over the metadata cursor; pos is the
\* cursor's position, i the iterations done, acc the entries pushed so far
RECURSIVE ParseRecords(_, _, _, _, _)
ParseRecords(metadata, pos, i, num_files, acc) ==
    IF ~(num_files.hi > 0 \/ i < num_files.lo)
    THEN [err |-> "none", recs |-> acc, pos |-> pos]
    ELSE IF pos + 2 > Len(metadata) THEN [err |-> "eof", recs |-> acc, pos |-> pos]
    ELSE LET name_len == U16FromLE(SubSeq(metadata, pos + 1, pos + 2))
             p1 == pos + 2
         IN  IF p1 + name_len > Len(metadata)
             THEN [err |-> "eof", recs |-> acc, pos |-> p1]
             ELSE LET name_bytes == SubSeq(metadata, p1 + 1, p1 + name_len)
                      p2 == p1 + name_len
                  IN  IF ~Utf8Valid(name_bytes)
                      THEN [err |-> "utf8", recs |-> acc, pos |-> p2]
                      ELSE IF p2 + 4 > Len(metadata)
                           THEN [err |-> "eof", recs |-> acc, pos |-> p2]
                      ELSE IF p2 + 4 + NONCE_LEN > Len(metadata)
                           THEN [err |-> "eof", recs |-> acc, pos |-> p2 + 4]
                      ELSE ParseRecords(metadata, p2 + 4 + NONCE_LEN, i + 1, num_files,
                               Append(acc,
                                   [name |-> name_bytes,
                                    size |-> U32FromLE(SubSeq(metadata, p2 + 1, p2 + 4)),
                                    iv |-> SubSeq(metadata, p2 + 5, p2 + 4 + NONCE_LEN)]))

\* total_encrypted_size: the u64 sum of the size fields, in two halves
RECURSIVE TotalEncryptedSize(_, _)
TotalEncryptedSize(recs, i) ==
    IF i > Len(recs) THEN [lo |-> 0, hi |-> 0]
    ELSE LET rest == TotalEncryptedSize(recs, i + 1)
         IN  [lo |-> recs[i].size.lo + rest.lo, hi |-> recs[i].size.hi + rest.hi]

\* faulty variant of DecryptEntries: an entry that fails to decrypt is
\* skipped and the loop goes on (lib.rs 562 without its `?`)
RECURSIVE DecryptEntriesSkipping(_, _, _, _, _, _)
DecryptEntriesSkipping(data, offset, recs, k, key, acc) ==
    IF k > Len(recs)
    THEN [kind |-> "ok", entries |-> acc, metaRead |-> TRUE, decrypts |-> k - 1]
    ELSE LET size == recs[k].size.lo
         IN  IF offset + size > Len(data) THEN Failure("eof", TRUE, k - 1)
             ELSE LET enc_buf == SubSeq(data, offset + 1, offset + size)
                      dec == GcmDecrypt(key, recs[k].iv, enc_buf)
                  IN  DecryptEntriesSkipping(data, offset + size, recs, k + 1, key,
                          IF dec.ok THEN Append(acc, <<recs[k].name, dec.pt>>) ELSE acc)

\* the loop `for (name, size, iv) in entries`: offset is the file cursor
RECURSIVE DecryptEntries(_, _, _, _, _, _)
DecryptEntries(data, offset, recs, k, key, acc) ==
    IF k > Len(recs)
    THEN [kind |-> "ok", entries |-> acc, metaRead |-> TRUE, decrypts |-> k - 1]
    ELSE LET size == recs[k].size.lo
         IN  IF offset + size > Len(data) THEN Failure("eof", TRUE, k - 1)
             ELSE LET enc_buf == SubSeq(data, offset + 1, offset + size)
                      dec == GcmDecrypt(key, recs[k].iv, enc_buf)
                  IN  IF ~dec.ok THEN Failure("crypto", TRUE, k)
                      ELSE DecryptEntries(data, offset + size, recs, k + 1, key,
                               Append(acc, <<recs[k].name, dec.pt>>))

\* faulty variant of FooterCheck: the magic is not compared
FooterCheckNoMagic(encrypted_data) ==
    IF Len(encrypted_data) < FOOTER_LEN THEN "too_small" ELSE "none"

\* lib.rs 489-505: "none", or the error the footer is rejected with
FooterCheck(encrypted_data) ==
    IF Len(encrypted_data) < FOOTER_LEN THEN "too_small"
    ELSE IF Drop(encrypted_data, Len(encrypted_data) - 5) # MAGIC_SHELL THEN "bad_magic"
    ELSE "none"

decrypt_payload(encrypted_data, key) ==
    LET file_len == Len(encrypted_data)
        footer == Drop(encrypted_data, file_len - FOOTER_LEN)
    IN
    IF FooterCheck(encrypted_data) # "none"
    THEN Failure(FooterCheck(encrypted_data), FALSE, 0)
    ELSE
    LET metadata_size == U32FromLE(SubSeq(footer, 1, 4))
        metadata_start == CheckedSub(file_len - FOOTER_LEN, metadata_size)
    IN
    IF metadata_start = -1 THEN Failure("bad_meta", FALSE, 0)
    ELSE
    LET metadata == SubSeq(encrypted_data, metadata_start + 1,
                           metadata_start + metadata_size.lo)
    IN
    IF Len(metadata) < 4 THEN Failure("eof", TRUE, 0)
    ELSE
    LET num_files == U32FromLE(SubSeq(metadata, 1, 4))
        parsed == ParseRecords(metadata, 4, 0, num_files, <<>>)
    IN
    IF parsed.err # "none" THEN Failure(parsed.err, TRUE, 0)
    ELSE
    LET payload_start == CheckedSub(metadata_start, TotalEncryptedSize(parsed.recs, 1))
    IN
    IF payload_start = -1 THEN Failure("bad_offset", TRUE, 0)
    ELSE DecryptEntries(encrypted_data, payload_start, parsed.recs, 1, key, <<>>)

-----------------------------------------------------------------------------
(* The codec harness: a list of plain entries is packed as                  *)
(* collect_and_encrypt_payload_entries and main do (encrypt_payload on each *)
(* entry, then build_payload_blob), and the blob, as packed or changed on   *)
(* the way, is handed to the loader's decrypt_payload.                      *)

\* "classes.dex", "lib/x86/a.so"
NameSet == {<<99, 108, 97, 115, 115, 101, 115, 46, 100, 101, 120>>,
            <<108, 105, 98, 47, 120, 56, 54, 47, 97, 46, 115, 111>>}

PlainSet == {<<>>, <<1, 2>>}

\* what the RNG returns on its i-th call, for two generators: one stuck at
\* zero (every nonce the same), one returning a fresh value each time
NonceStreams == {[i \in 1..(MaxEntries + 1) |-> [j \in 1..NONCE_LEN |-> 0]],
                 [i \in 1..(MaxEntries + 1) |-> [j \in 1..NONCE_LEN |-> 16 * i + j]]}

EntrySet == [name : NameSet, plain : PlainSet]

\* main bails out on an empty list before build_payload_blob (main.rs 82-84)
EntryLists == UNION {[1..n -> EntrySet] : n \in 1..MaxEntries}

NoTamper == [kind |-> "none", pos |-> 0, val |-> 0, perm |-> <<>>]
NoResult == [kind |-> "unset", entries |-> <<>>, metaRead |-> FALSE, decrypts |-> 0]

\* the values a changed byte takes: one up, one down, top bit flipped
MutVals(old) == {(old + 1) % 256, (old + 255) % 256, (old + 128) % 256}

RecordOrders(n) == {p \in [1..n -> 1..n] : \A i, j \in 1..n : p[i] = p[j] => i = j}

Threads == 1..NumThreads

\* no loader process: the state of a process in which nothing was called
LoaderIdle ==
    /\ marker = FALSE
    /\ pc = [t \in Threads |-> "idle"]
    /\ entry = [t \in Threads |-> "none"]
    /\ pending = [t \in Threads |-> FALSE]
    /\ payload = [t \in Threads |-> <<>>]
    /\ calls = 0
    /\ outcome = [t \in Threads |-> "none"]
    /\ touched = [t \in Threads |-> FALSE]
    /\ batchUnset = TRUE
    /\ batchWins = 0
    /\ batchClears = 0
    /\ splices = 0
    /\ succeeded = 0
    /\ leaked = FALSE

\* no packer run
PackerIdle ==
    /\ pkPhase = "idle"
    /\ args = [keep_class |-> <<>>, keep_prefix |-> <<>>, keep_lib |-> <<>>,
               patched_manifest |-> <<>>, resources |-> <<>>]
    /\ target = <<>>
    /\ bootstrap = [dex |-> <<>>, abis |-> <<>>]
    /\ payload_entries = <<>>
    /\ payload_blob = <<>>
    /\ retained_dex_entries = <<>>
    /\ output = <<>>
    /\ outputCreated = FALSE
    /\ pkError = "none"

\* no launch followed through its file landing
LandingIdle ==
    /\ ldPhase = "idle"
    /\ ldAbi = <<>>
    /\ ldBlob = <<>>
    /\ ldTamper = "none"
    /\ file_list = <<>>
    /\ fsDex = <<>>
    /\ fsLibs = {}
    /\ fsAssets = <<>>
    /\ dex_paths = <<>>
    /\ ldWrites = {}
    /\ ldCalls = <<>>
    /\ ldError = "none"

\* the GUI driver before any command
GuiIdle ==
    /\ process = 0
    /\ child = [n \in 1..MaxChildren |-> "none"]
    /\ gpc = [c \in 1..NumCommandThreads |-> "idle"]
    /\ spawned = [c \in 1..NumCommandThreads |-> 0]
    /\ monitor = [n \in 1..MaxChildren |-> "none"]
    /\ startResult = [c \in 1..NumCommandThreads |-> "none"]
    /\ spawnedWhileRunning = FALSE
    /\ dropped = {}

CodecInit ==
    /\ phase = "input"
    /\ inEntries \in EntryLists
    /\ encEntries = <<>>
    /\ packedBlob = <<>>
    /\ blob = <<>>
    /\ tamper = NoTamper
    /\ result = NoResult
    /\ apk = [blob |-> <<>>, hash |-> <<>>, certOk |-> TRUE]
    /\ LoaderIdle
    /\ PackerIdle
    /\ LandingIdle
    /\ GuiIdle

\* main.rs 185-211 and 86: every entry encrypted under a fresh nonce, in
\* iteration order, then the blob built
Pack ==
    /\ phase = "input"
    /\ \E nonces \in NonceStreams :
         LET encs == [i \in 1..Len(inEntries) |->
                        LET e == encrypt_payload(inEntries[i].plain, nonces[i])
                        IN  [name |-> inEntries[i].name, enc |-> e.enc, nonce |-> e.nonce]]
         IN  /\ encEntries' = encs
             /\ packedBlob' = build_payload_blob(encs)
             /\ blob' = build_payload_blob(encs)
    /\ phase' = "packed"
    /\ UNCHANGED <<inEntries, tamper, result, loaderVars, historyVars, packerVars, landingVars, guiVars>>

\* the loader parses b, which the harness obtained from packedBlob by t
Parse(b, t) ==
    /\ blob' = b
    /\ tamper' = t
    /\ result' = decrypt_payload(b, get_aes_key)
    /\ phase' = "parsed"
    /\ UNCHANGED <<inEntries, encEntries, packedBlob, loaderVars, historyVars, packerVars, landingVars, guiVars>>

ParsePacked ==
    /\ phase = "packed"
    /\ Parse(packedBlob, NoTamper)

\* one byte of the blob changed
ParseMutated ==
    /\ phase = "packed"
    /\ \E pos \in 1..Len(packedBlob) : \E v \in MutVals(packedBlob[pos]) :
         Parse([packedBlob EXCEPT ![pos] = v],
               [kind |-> "byte", pos |-> pos, val |-> v, perm |-> <<>>])

\* the metadata records permuted, the ciphertext region left as it is
ParsePermuted ==
    /\ phase = "packed"
    /\ \E p \in RecordOrders(Len(encEntries)) :
         LET recs == [i \in 1..Len(encEntries) |-> encEntries[p[i]]]
             metadata == BuildMetadata(recs)
         IN  Parse(ConcatCiphertexts(encEntries, 1) \o metadata
                       \o U32LE(Len(metadata)) \o MAGIC_SHELL,
                   [kind |-> "permute", pos |-> 0, val |-> 0, perm |-> p])

\* the blob cut to its last n bytes, or to its first n bytes (n up to the
\* footer's length: a longer head has lost the footer all the same)
ParseTruncated ==
    /\ phase = "packed"
    /\ \E n \in 0..(Len(packedBlob) - 1) :
         \/ /\ n <= FOOTER_LEN
            /\ Parse(Take(packedBlob, n),
                     [kind |-> "keep_first", pos |-> n, val |-> 0, perm |-> <<>>])
         \/ Parse(Drop(packedBlob, Len(packedBlob) - n),
                  [kind |-> "keep_last", pos |-> n, val |-> 0, perm |-> <<>>])

\* a byte put in front of the blob
ParsePrepended ==
    /\ phase = "packed"
    /\ \E v \in {0, 83} :
         Parse(<<v>> \o packedBlob,
               [kind |-> "prepend", pos |-> 0, val |-> v, perm |-> <<>>])

\* a byte put after the last metadata record, metadata_len counting it
ParsePadded ==
    /\ phase = "packed"
    /\ LET metadata == BuildMetadata(encEntries) \o <<0>>
       IN  Parse(ConcatCiphertexts(encEntries, 1) \o metadata
                     \o U32LE(Len(metadata)) \o MAGIC_SHELL,
                 [kind |-> "pad", pos |-> 0, val |-> 0, perm |-> <<>>])

CodecNext ==
    \/ Pack
    \/ ParsePacked
    \/ ParseMutated
    \/ ParsePermuted
    \/ ParseTruncated
    \/ ParsePrepended
    \/ ParsePadded

CodecSpec == CodecInit /\ [][CodecNext]_vars

-----------------------------------------------------------------------------
(* Where a byte of packedBlob lies: the layout build_payload_blob wrote *)

RECURSIVE CipherBytesBefore(_, _)
CipherBytesBefore(entries, k) ==
    IF k <= 1 THEN 0
    ELSE Len(entries[k - 1].enc) + CipherBytesBefore(entries, k - 1)

RECURSIVE RecordBytesBefore(_, _)
RecordBytesBefore(entries, k) ==
    IF k <= 1 THEN 0
    ELSE Len(MetadataRecord(entries[k - 1])) + RecordBytesBefore(entries, k - 1)

\* the field of the packed blob that byte pos belongs to, and its entry
Region(pos) ==
    LET n == Len(encEntries)
        cEnd == CipherBytesBefore(encEntries, n + 1)
        rEnd == cEnd + 4 + RecordBytesBefore(encEntries, n + 1)
    IN  IF pos <= cEnd
        THEN [field |-> "cipher",
              entry |-> CHOOSE k \in 1..n :
                            /\ CipherBytesBefore(encEntries, k) < pos
                            /\ pos <= CipherBytesBefore(encEntries, k + 1)]
        ELSE IF pos <= cEnd + 4 THEN [field |-> "count", entry |-> 0]
        ELSE IF pos <= rEnd
        THEN LET k == CHOOSE k \in 1..n :
                          /\ cEnd + 4 + RecordBytesBefore(encEntries, k) < pos
                          /\ pos <= cEnd + 4 + RecordBytesBefore(encEntries, k + 1)
                 off == pos - (cEnd + 4 + RecordBytesBefore(encEntries, k))
                 nl == Len(encEntries[k].name)
             IN  [field |-> IF off <= 2 THEN "name_len"
                            ELSE IF off <= 2 + nl THEN "name"
                            ELSE IF off <= 2 + nl + 4 THEN "cipher_len"
                            ELSE "nonce",
                  entry |-> k]
        ELSE IF pos <= rEnd + 4 THEN [field |-> "meta_len", entry |-> 0]
        ELSE [field |-> "magic", entry |-> 0]

\* the list [(name_i, plain_i)] the packer was handed
PlainEntries == [i \in 1..Len(inEntries) |-> <<inEntries[i].name, inEntries[i].plain>>]

-----------------------------------------------------------------------------
(* C6  Round trip: a blob built by build_payload_blob from entries          *)
(* encrypted by encrypt_payload parses, under the same key, to exactly the  *)
(* list of (name, plaintext) pairs the packer was handed, in the same order *)
C6_RoundTrip ==
    (phase = "parsed" /\ tamper.kind = "none")
        => (result.kind = "ok" /\ result.entries = PlainEntries)

C6_Witness ==
    /\ phase = "parsed"
    /\ tamper.kind = "none"
    /\ Len(inEntries) = 2
    /\ inEntries[1] # inEntries[2]
    /\ result.kind = "ok"
    /\ result.entries = PlainEntries

(* C7, as claimed: changing any one byte of a ciphertext or of its metadata *)
(* record (name_len, name, cipher_len, nonce) makes decrypt_payload fail    *)
(* with a crypto error                                                      *)
C7_AnyRecordByteIsCryptoError ==
    (/\ phase = "parsed"
     /\ tamper.kind = "byte"
     /\ Region(tamper.pos).field \in {"cipher", "name_len", "name", "cipher_len", "nonce"})
        => result.kind = "crypto"

(* C7, amended: a changed byte of a ciphertext (its tag included) or of a   *)
(* nonce gives a crypto error; a changed byte of name_len or cipher_len     *)
(* gives an error, of format or of crypto; a changed byte of a name gives a *)
(* format error when the name is no longer UTF-8 and otherwise the entries  *)
(* come back decrypted, with that one name changed (names are not           *)
(* authenticated)                                                           *)
C7_TamperedByte ==
    (phase = "parsed" /\ tamper.kind = "byte")
        => LET r == Region(tamper.pos)
               k == r.entry
               off == tamper.pos - (CipherBytesBefore(encEntries, Len(encEntries) + 1)
                                     + 4 + RecordBytesBefore(encEntries, k) + 2)
           IN  /\ r.field \in {"cipher", "nonce"} => result.kind = "crypto"
               /\ r.field \in {"name_len", "cipher_len"}
                     => result.kind \in FormatErrors \cup {"crypto"}
               /\ r.field = "name"
                     => LET newName == [inEntries[k].name EXCEPT ![off] = tamper.val]
                        IN  IF Utf8Valid(newName)
                            THEN /\ result.kind = "ok"
                                 /\ result.entries =
                                      [PlainEntries EXCEPT ![k] = <<newName, inEntries[k].plain>>]
                            ELSE result.kind = "utf8"

C7_Witness ==
    /\ phase = "parsed"
    /\ tamper.kind = "byte"
    /\ Region(tamper.pos).field = "name"
    /\ result.kind = "ok"
    /\ result.entries # PlainEntries

(* C8  With the metadata records permuted and the ciphertext region left    *)
(* alone, decrypt_payload returns a crypto error, and so no entry, whenever *)
(* some record's (nonce, ciphertext slice) pair is not a pair produced at   *)
(* pack time                                                                *)
PermutedPair(i) ==
    LET recs == [j \in 1..Len(encEntries) |-> encEntries[tamper.perm[j]]]
        start == CipherBytesBefore(recs, i)
    IN  <<recs[i].nonce, SubSeq(blob, start + 1, start + Len(recs[i].enc))>>

PackedPairs == {<<encEntries[k].nonce, encEntries[k].enc>> : k \in 1..Len(encEntries)}

C8_PermutedRecords ==
    (/\ phase = "parsed"
     /\ tamper.kind = "permute"
     /\ \E i \in 1..Len(encEntries) : PermutedPair(i) \notin PackedPairs)
        => (result.kind = "crypto" /\ result.entries = <<>>)

C8_Witness ==
    /\ phase = "parsed"
    /\ tamper.kind = "permute"
    /\ \E i \in 1..Len(encEntries) : PermutedPair(i) \notin PackedPairs
    /\ Len(encEntries[1].enc) # Len(encEntries[2].enc)
    /\ result.kind = "crypto"

(* C9  A blob shorter than the 9-byte footer, or whose last 5 bytes are not *)
(* SHELL, is rejected with a format error before the metadata is read and   *)
(* before any decryption is attempted                                       *)
C9_FooterRejected ==
    (/\ phase = "parsed"
     /\ \/ Len(blob) < FOOTER_LEN
        \/ Drop(blob, Len(blob) - 5) # MAGIC_SHELL)
        => /\ result.kind = (IF Len(blob) < FOOTER_LEN THEN "too_small" ELSE "bad_magic")
           /\ result.kind \in FormatErrors
           /\ ~result.metaRead
           /\ result.decrypts = 0

C9_Witness ==
    /\ phase = "parsed"
    /\ Len(blob) >= FOOTER_LEN
    /\ Drop(blob, Len(blob) - 5) # MAGIC_SHELL
    /\ tamper.kind = "byte"
    /\ result.kind = "bad_magic"

(* C10, as claimed: decrypt_payload returns a format error for every blob   *)
(* whose size fields are inconsistent with its length: 9 + metadata_len +   *)
(* the sum of the cipher_len fields differs from the length, or the N       *)
(* records do not exactly fill the metadata_len bytes                       *)
SizeFieldsInconsistent(b) ==
    LET metadata_size == U32FromLE(SubSeq(b, Len(b) - 8, Len(b) - 5))
        metadata_start == CheckedSub(Len(b) - FOOTER_LEN, metadata_size)
        metadata == SubSeq(b, metadata_start + 1, metadata_start + metadata_size.lo)
        parsed == ParseRecords(metadata, 4, 0, U32FromLE(SubSeq(metadata, 1, 4)), <<>>)
        total == TotalEncryptedSize(parsed.recs, 1)
    IN  \/ metadata_start = -1
        \/ Len(metadata) < 4
        \/ parsed.err = "eof"
        \/ parsed.err = "none" /\ parsed.pos # Len(metadata)
        \/ parsed.err = "none" /\ (total.hi # 0 \/ total.lo # metadata_start)

C10_InconsistentSizesAreFormatErrors ==
    (/\ phase = "parsed"
     /\ Len(blob) >= FOOTER_LEN
     /\ Drop(blob, Len(blob) - 5) = MAGIC_SHELL
     /\ SizeFieldsInconsistent(blob))
        => result.kind \in FormatErrors

-----------------------------------------------------------------------------
(* Loader: the payload digest and extract_payload *)

HASH_LEN == 32

\* Sha256, replaced by a 32-byte checksum over every byte and the length
RECURSIVE HashFold(_, _, _)
HashFold(b, j, k) ==
    IF j + HASH_LEN * k > Len(b) THEN 0
    ELSE (b[j + HASH_LEN * k] * (2 * k + 1) + HashFold(b, j, k + 1)) % 256

Sha256(b) == [j \in 1..HASH_LEN |-> (7 * j + 13 * Len(b) + HashFold(b, j, 0)) % 256]

\* [0u8; 32]: the development default of PAYLOAD_HASH
ZeroHash == [j \in 1..HASH_LEN |-> 0]

\* faulty variant of extract_payload: the digest is not compared
extract_payload_NoDigest(encrypted_data, payload_hash) ==
    decrypt_payload(encrypted_data, get_aes_key)

\* extract_payload(path, true) once the payload entry's bytes are read:
\* the digest check (skipped when PAYLOAD_HASH is all zero), then decrypt_payload
extract_payload(encrypted_data, payload_hash) ==
    IF Sha256(encrypted_data) # payload_hash /\ payload_hash # ZeroHash
    THEN Failure("integrity", FALSE, 0)
    ELSE decrypt_payload(encrypted_data, get_aes_key)

-----------------------------------------------------------------------------
(* Loader: one process, its threads calling the three JNI entry points *)

\* "App": ShellApplication.nativeLoadDex, "AppInfo": nativeLoadDexWithAppInfo,
\* "Provider": BootstrapProvider.nativeLoadDex
EntryPoints == {"App", "AppInfo", "Provider"}

\* ".dex"
DexSuffix == <<46, 100, 101, 120>>

\* the entries the packer encrypted: classes.dex and lib/arm64-v8a/a.so
ApkDex == [name |-> <<99, 108, 97, 115, 115, 101, 115, 46, 100, 101, 120>>,
           plain |-> <<1, 2>>]

ApkLib == [name |-> <<108, 105, 98, 47, 97, 114, 109, 54, 52, 45, 118, 56, 97,
                      47, 97, 46, 115, 111>>,
           plain |-> <<3>>]

\* the blob the packer makes of an entry list (nonces of the fresh stream)
PackedBlobOf(list) ==
    build_payload_blob(
        [i \in 1..Len(list) |->
            LET e == encrypt_payload(list[i].plain, [j \in 1..NONCE_LEN |-> 16 * i + j])
            IN  [name |-> list[i].name, enc |-> e.enc, nonce |-> e.nonce]])

\* the installed archive. With both entries: the payload as packed or with
\* its first byte changed, in a development build or a release build. With
\* the library alone (every dex kept in plaintext): as packed, development
\* build. A development build has the defaults of config.defaults.rs:
\* PAYLOAD_HASH zero, and EXPECTED_SIGNATURE_HASH zero, which the digest of no
\* signing certificate equals. A release build has PAYLOAD_HASH the digest of
\* the packed blob and EXPECTED_SIGNATURE_HASH that of its certificate
Build(h) == [hash |-> h, certOk |-> h # ZeroHash]

Archives ==
    LET good == PackedBlobOf(<<ApkDex, ApkLib>>)
        bad == [good EXCEPT ![1] = (good[1] + 1) % 256]
    IN  {[blob |-> b, hash |-> c.hash, certOk |-> c.certOk] :
             b \in {good, bad}, c \in {Build(ZeroHash), Build(Sha256(good))}}
            \cup {[blob |-> PackedBlobOf(<<ApkLib>>), hash |-> ZeroHash, certOk |-> FALSE]}

Init ==
    /\ phase = "loader"
    /\ inEntries = <<>>
    /\ encEntries = <<>>
    /\ packedBlob = <<>>
    /\ blob = <<>>
    /\ tamper = NoTamper
    /\ result = NoResult
    /\ apk \in Archives
    /\ LoaderIdle
    /\ PackerIdle
    /\ LandingIdle
    /\ GuiIdle

\* faulty variant of CasSucceeds: a plain store in place of compare_exchange
StoreAlwaysSucceeds == TRUE

\* faulty variant of clear_dex_load_marker: the marker is left as it is
KeepMarker == marker' = marker

\* try_mark_dex_load_started: the compare_exchange(false, true) succeeds
CasSucceeds == marker = FALSE

\* clear_dex_load_marker
clear_dex_load_marker == marker' = FALSE

\* thread t moves to location l
Goto(t, l) ==
    /\ pc' = [pc EXCEPT ![t] = l]
    /\ UNCHANGED <<codecVars, apk, packerVars, landingVars, guiVars>>

\* a host call of thread t throws: jni-rs returns Err(JavaException) and the
\* exception stays pending until exception_clear
Throw(t) == [pending EXCEPT ![t] = TRUE]

\* env.exception_clear()
ExceptionClear(t) == [pending EXCEPT ![t] = FALSE]

\* the entry point of thread t returns to its Java caller
Return(t, how, pendingNow) ==
    /\ Goto(t, "idle")
    /\ entry' = [entry EXCEPT ![t] = "none"]
    /\ payload' = [payload EXCEPT ![t] = <<>>]
    /\ outcome' = [outcome EXCEPT ![t] = how]
    /\ leaked' = (leaked \/ pendingNow[t])

\* an error arm of an entry point: `let _ = env.exception_clear();` where the
\* arm has it, then `clear_dex_load_marker(); return;`
FailReturn(t, pendingNow) ==
    /\ pending' = pendingNow
    /\ clear_dex_load_marker
    /\ batchClears' = batchClears + 1
    /\ Return(t, "failed", pendingNow)
    /\ UNCHANGED <<calls, batchUnset, batchWins, splices, succeeded>>

\* faulty variant of SuccessReturn: the marker is cleared on success too
SuccessReturnClearingMarker(t) ==
    /\ succeeded' = succeeded + 1
    /\ marker' = FALSE
    /\ Goto(t, "idle")
    /\ entry' = [entry EXCEPT ![t] = "none"]
    /\ payload' = [payload EXCEPT ![t] = <<>>]
    /\ outcome' = [outcome EXCEPT ![t] = "ok"]
    /\ leaked' = (leaked \/ pending[t])
    /\ UNCHANGED <<pending, calls, batchUnset, batchWins, batchClears, splices>>

\* the entry point falls off its end after load_dex_core returned Ok
SuccessReturn(t) ==
    /\ succeeded' = succeeded + 1
    /\ Return(t, "ok", pending)
    /\ UNCHANGED <<marker, pending, calls, batchUnset, batchWins, batchClears, splices>>

\* thread t stays in its call and moves on to location l
Step(t, l, pendingNow) ==
    /\ Goto(t, l)
    /\ pending' = pendingNow
    /\ UNCHANGED <<marker, entry, payload, calls, outcome, batchUnset, batchWins,
                   batchClears, splices, succeeded, leaked>>

Touch(t) == touched' = [touched EXCEPT ![t] = TRUE]

\* Java calls entry point e on thread t; a batch of overlapping calls begins
\* when no other call is in progress
Call(t, e) ==
    /\ pc[t] = "idle"
    /\ calls < MaxCalls
    /\ calls' = calls + 1
    /\ Goto(t, "cas")
    /\ entry' = [entry EXCEPT ![t] = e]
    /\ pending' = [pending EXCEPT ![t] = FALSE]
    /\ payload' = [payload EXCEPT ![t] = <<>>]
    /\ outcome' = [outcome EXCEPT ![t] = "running"]
    /\ touched' = [touched EXCEPT ![t] = FALSE]
    /\ IF \A u \in Threads : pc[u] = "idle"
       THEN batchUnset' = ~marker /\ batchWins' = 0 /\ batchClears' = 0
       ELSE UNCHANGED <<batchUnset, batchWins, batchClears>>
    /\ UNCHANGED <<marker, splices, succeeded, leaked>>

\* faulty variant of TryMark: the call that loses the compare-and-set clears
\* the marker on its way out
TryMarkLoserClears(t) ==
    /\ pc[t] = "cas"
    /\ IF CasSucceeds
       THEN /\ marker' = TRUE
            /\ batchWins' = batchWins + 1
            /\ Goto(t, "code_path")
            /\ UNCHANGED <<entry, payload, outcome, leaked>>
       ELSE /\ Return(t, "skipped", pending)
            /\ clear_dex_load_marker
            /\ UNCHANGED batchWins
    /\ UNCHANGED <<pending, calls, touched, batchUnset, batchClears, splices, succeeded>>

\* `if !try_mark_dex_load_started() { return; }`
TryMark(t) ==
    /\ pc[t] = "cas"
    /\ IF CasSucceeds
       THEN /\ marker' = TRUE
            /\ batchWins' = batchWins + 1
            /\ Goto(t, "code_path")
            /\ UNCHANGED <<entry, payload, outcome, leaked>>
       ELSE /\ Return(t, "skipped", pending)
            /\ UNCHANGED <<marker, batchWins>>
    /\ UNCHANGED <<pending, calls, touched, batchUnset, batchClears, splices, succeeded>>

\* get_package_code_path (Context entries) or get_string_field(sourceDir)
ResolveCodePath(t) ==
    /\ pc[t] = "code_path"
    /\ UNCHANGED touched
    /\ \/ Step(t, "paths", pending)
       \/ FailReturn(t, ExceptionClear(t))

\* get_paths_and_loader_from_context (Context entries) or
\* get_string_field(dataDir) (AppInfo)
ResolvePaths(t) ==
    /\ pc[t] = "paths"
    /\ UNCHANGED touched
    /\ \/ Step(t, IF entry[t] = "AppInfo" THEN "mkdir" ELSE "verify", pending)
       \/ FailReturn(t, ExceptionClear(t))

\* AppInfo only: std::fs::create_dir_all(cache); its error arm has no
\* exception_clear
CreateCacheDir(t) ==
    /\ pc[t] = "mkdir"
    /\ Touch(t)
    /\ \/ Step(t, "extract", pending)
       \/ FailReturn(t, pending)

\* what verify_integrity returns: Err(JavaException) when a host call threw
\* (the exception stays pending), else Ok or the Err of a certificate digest
\* that differs from EXPECTED_SIGNATURE_HASH
VerifyOutcomes == {"threw", IF apk.certOk THEN "ok" ELSE "mismatch"}

\* faulty variant of VerifyIntegrity: an Err aborts the load
VerifyIntegrityAborting(t) ==
    /\ pc[t] = "verify"
    /\ UNCHANGED touched
    /\ \E r \in VerifyOutcomes :
          IF r = "ok" THEN Step(t, "extract", pending)
          ELSE FailReturn(t, IF r = "threw" THEN Throw(t) ELSE pending)

\* Context entries only: `if let Err(e) = verify_integrity(..) { error!(..) }`:
\* an Err is logged only
VerifyIntegrity(t) ==
    /\ pc[t] = "verify"
    /\ UNCHANGED touched
    /\ \E r \in VerifyOutcomes :
          Step(t, "extract", IF r = "threw" THEN Throw(t) ELSE pending)

\* extract_payload(&apk_path, true): the archive is opened and read (which may
\* fail), the digest checked, the blob decrypted; the error arm has no
\* exception_clear
ExtractPayload(t) ==
    /\ pc[t] = "extract"
    /\ Touch(t)
    /\ \/ FailReturn(t, pending)
       \/ LET r == extract_payload(apk.blob, apk.hash)
          IN  IF r.kind = "ok"
              THEN /\ Goto(t, "assets")
                   /\ payload' = [payload EXCEPT ![t] = r.entries]
                   /\ UNCHANGED <<marker, entry, pending, calls, outcome, batchUnset,
                                  batchWins, batchClears, splices, succeeded, leaked>>
              ELSE FailReturn(t, pending)

\* load_dex_core: extract_assets_core writes kapp_assets.zip, or fails
ExtractAssets(t) ==
    /\ pc[t] = "assets"
    /\ Touch(t)
    /\ \/ Step(t, "landing", pending)
       \/ FailReturn(t, ExceptionClear(t))

\* the dex_paths load_file_landing collects: one per entry named *.dex
DexPaths(list) == {i \in 1..Len(list) : EndsWith(list[i][1], DexSuffix)}

\* load_file_landing up to `if joined_paths.is_empty() { return Ok(()) }`:
\* the dex and library files are written (failures ignored)
FileLanding(t) ==
    /\ pc[t] = "landing"
    /\ Touch(t)
    /\ IF DexPaths(payload[t]) = {}
       THEN SuccessReturn(t)
       ELSE Step(t, "new_string", pending)

\* env.new_string(&joined_paths)?: jni-rs returns Err when an exception is
\* pending after the call, thrown by it or left from before
NewString(t) ==
    /\ pc[t] = "new_string"
    /\ UNCHANGED touched
    /\ \/ /\ ~pending[t]
          /\ Step(t, "add_dex2", pending)
       \/ FailReturn(t, ExceptionClear(t))

\* addDexPath(String, boolean); on failure exception_clear and the
\* one-argument variant is tried
AddDexPath2(t) ==
    /\ pc[t] = "add_dex2"
    /\ Touch(t)
    /\ \/ /\ Goto(t, "native_prep")
          /\ splices' = splices + 1
          /\ UNCHANGED <<marker, entry, pending, payload, calls, outcome, batchUnset,
                         batchWins, batchClears, succeeded, leaked>>
       \/ Step(t, "add_dex1", ExceptionClear(t))

\* addDexPath(String)?
AddDexPath1(t) ==
    /\ pc[t] = "add_dex1"
    /\ Touch(t)
    /\ \/ /\ Goto(t, "native_prep")
          /\ splices' = splices + 1
          /\ UNCHANGED <<marker, entry, pending, payload, calls, outcome, batchUnset,
                         batchWins, batchClears, succeeded, leaked>>
       \/ FailReturn(t, ExceptionClear(t))

\* new_string(libs_dir)?, find_class(ArrayList)?, new_object?, add?: any of
\* the four may throw
NativePathList(t) ==
    /\ pc[t] = "native_prep"
    /\ UNCHANGED touched
    /\ \/ Step(t, "add_native", pending)
       \/ FailReturn(t, ExceptionClear(t))

\* addNativePath(Collection): best effort, a failure is cleared; Ok(())
AddNativePath(t) ==
    /\ pc[t] = "add_native"
    /\ Touch(t)
    /\ SuccessReturn(t)

Next ==
    \/ \E t \in Threads, e \in EntryPoints : Call(t, e)
    \/ \E t \in Threads : TryMark(t)
    \/ \E t \in Threads : ResolveCodePath(t)
    \/ \E t \in Threads : ResolvePaths(t)
    \/ \E t \in Threads : CreateCacheDir(t)
    \/ \E t \in Threads : VerifyIntegrity(t)
    \/ \E t \in Threads : ExtractPayload(t)
    \/ \E t \in Threads : ExtractAssets(t)
    \/ \E t \in Threads : FileLanding(t)
    \/ \E t \in Threads : NewString(t)
    \/ \E t \in Threads : AddDexPath2(t)
    \/ \E t \in Threads : AddDexPath1(t)
    \/ \E t \in Threads : NativePathList(t)
    \/ \E t \in Threads : AddNativePath(t)

Spec == Init /\ [][Next]_vars

-----------------------------------------------------------------------------
(* Properties of the loader process (Spec) *)

\* the calls that hold the marker: past their compare-and-set, not yet returned
Holders == {t \in Threads : pc[t] \notin {"idle", "cas"}}

AllIdle == \A t \in Threads : pc[t] = "idle"

\* every call that lost its compare-and-set returned without reading the
\* archive, writing a file or calling into the class loader
LosersTouchNothing == \A t \in Threads : outcome[t] = "skipped" => ~touched[t]

(* C1, as claimed: among concurrent calls that start with DEX_LOAD_MARKER   *)
(* unset exactly one proceeds past the compare-and-set, and every other     *)
(* call returns without touching the archive, a file or the class loader    *)
C1_ExactlyOnePasses ==
    /\ batchUnset => batchWins <= 1
    /\ (batchUnset /\ AllIdle /\ calls > 0) => batchWins = 1
    /\ LosersTouchNothing

(* C1, amended: at any moment at most one call is past the compare-and-set; *)
(* among concurrent calls that start with the marker unset at least one     *)
(* passes it, and one more may pass for each earlier winner that failed and *)
(* cleared the marker; every call that loses the compare-and-set returns    *)
(* without touching the archive, a file or the class loader                 *)
C1_OneHolderAtATime ==
    /\ Cardinality(Holders) <= 1
    /\ batchUnset => batchWins <= 1 + batchClears
    /\ (batchUnset /\ AllIdle /\ calls > 0) => batchWins >= 1
    /\ LosersTouchNothing

C1_Witness ==
    /\ batchUnset
    /\ batchWins = 2
    /\ Cardinality(Holders) = 1
    /\ \E t \in Threads : pc[t] = "idle" /\ outcome[t] = "skipped"

(* C2  Every failure return of an entry point that won the compare-and-set  *)
(* leaves DEX_LOAD_MARKER clear, so the next compare-and-set, of any entry  *)
(* point, wins                                                              *)
C2_FailureClearsMarker ==
    [][\A t \in Threads :
          (pc[t] \notin {"idle", "cas"} /\ pc'[t] = "idle" /\ outcome'[t] = "failed")
              => (~marker' /\ CasSucceeds')]_vars

C2_Witness ==
    \E t, u \in Threads :
        /\ pc[t] = "idle"
        /\ outcome[t] = "failed"
        /\ pc[u] = "code_path"
        /\ batchClears >= 1

(* C3, as claimed: over any interleaving of calls, retries after a failure  *)
(* included, the class loader is spliced (a successful addDexPath) at most  *)
(* once                                                                     *)
C3_AtMostOneSplice == splices <= 1

(* C4  Once a call has completed without error DEX_LOAD_MARKER stays set,   *)
(* and every later call returns from its compare-and-set without reading    *)
(* the archive, writing a file or touching the class loader                 *)
C4_AfterSuccess ==
    [][/\ succeeded' > 0 => marker'
       /\ succeeded > 0 =>
             \A t \in Threads :
                /\ pc'[t] \in {"idle", "cas"}
                /\ touched'[t] => touched[t]
                /\ (pc[t] = "cas" /\ pc'[t] = "idle") => outcome'[t] = "skipped"]_vars

C4_Witness ==
    /\ succeeded > 0
    /\ marker
    /\ \A t \in Threads : pc[t] = "idle" /\ outcome[t] = "skipped" /\ ~touched[t]

(* C5, as claimed: whenever an entry point returns, on success or on any    *)
(* failure path, no host exception is left pending                          *)
C5_NoPendingException == ~leaked

-----------------------------------------------------------------------------
(* Properties of the packed blob (CodecSpec) *)

\* 4 + the sum over entries i.. of (2 + name byte length + 4 + 12)
RECURSIVE DescriptorLen(_, _)
DescriptorLen(entries, i) ==
    IF i > Len(entries) THEN 4
    ELSE 2 + Len(entries[i].name) + 4 + NONCE_LEN + DescriptorLen(entries, i + 1)

\* the metadata_len field of the packed blob's footer
FooterMetadataLen == U32FromLE(SubSeq(packedBlob, Len(packedBlob) - 8, Len(packedBlob) - 5))

(* C11  In every blob made by build_payload_blob the footer's metadata_len  *)
(* is the byte length of the metadata descriptor, which is 4 + the sum over *)
(* the entries of (2 + name byte length + 4 + 12)                           *)
C11_MetadataLen ==
    phase = "packed"
        => /\ FooterMetadataLen = [lo |-> DescriptorLen(encEntries, 1), hi |-> 0]
           /\ Len(packedBlob) = CipherBytesBefore(encEntries, Len(encEntries) + 1)
                                   + FooterMetadataLen.lo + FOOTER_LEN

C11_Witness ==
    /\ phase = "packed"
    /\ Len(encEntries) = 2
    /\ Len(encEntries[1].name) # Len(encEntries[2].name)
    /\ FooterMetadataLen.lo = DescriptorLen(encEntries, 1)

\* where the record of entry k begins in the packed blob (bytes before it)
RecordStart(k) ==
    CipherBytesBefore(encEntries, Len(encEntries) + 1) + 4 + RecordBytesBefore(encEntries, k)

\* the name_len and cipher_len fields recorded for entry k
RecordedNameLen(k) ==
    U16FromLE(SubSeq(packedBlob, RecordStart(k) + 1, RecordStart(k) + 2))

RecordedCipherLen(k) ==
    LET at == RecordStart(k) + 2 + Len(encEntries[k].name)
    IN  U32FromLE(SubSeq(packedBlob, at + 1, at + 4))

RECURSIVE SumRecordedCipherLen(_)
SumRecordedCipherLen(k) ==
    IF k = 0 THEN 0 ELSE RecordedCipherLen(k).lo + SumRecordedCipherLen(k - 1)

(* C12  In every blob made by build_payload_blob each recorded name_len and *)
(* cipher_len is the byte length of that entry's name and ciphertext, and   *)
(* the recorded cipher_len fields sum to the blob's length minus the 9-byte *)
(* footer minus metadata_len                                                *)
C12_CipherLenSum ==
    phase = "packed"
        => /\ \A k \in 1..Len(encEntries) :
                 /\ RecordedNameLen(k) = Len(encEntries[k].name)
                 /\ RecordedCipherLen(k) = [lo |-> Len(encEntries[k].enc), hi |-> 0]
           /\ FooterMetadataLen.hi = 0
           /\ SumRecordedCipherLen(Len(encEntries))
                 = Len(packedBlob) - FOOTER_LEN - FooterMetadataLen.lo

C12_Witness ==
    /\ phase = "packed"
    /\ Len(encEntries) = 2
    /\ Len(encEntries[1].enc) # Len(encEntries[2].enc)
    /\ RecordedCipherLen(1).lo = Len(encEntries[1].enc)
    /\ RecordedCipherLen(2).lo = Len(encEntries[2].enc)

-----------------------------------------------------------------------------
(* Properties of payload extraction in the loader (Spec) *)

\* the expected digest is set and the installed blob's digest differs
DigestMismatch == apk.hash # ZeroHash /\ Sha256(apk.blob) # apk.hash

(* C13  Whatever the entry point: with a non-zero expected digest, a blob   *)
(* whose digest differs makes extract_payload fail before decrypt_payload   *)
(* is invoked, and the call returns failed with the marker cleared; with an *)
(* all-zero expected digest the check never rejects, extract_payload is     *)
(* decrypt_payload, and a blob that decrypts is handed on to load_dex_core  *)
C13_DigestCheck ==
    [][\A t \in Threads :
          (pc[t] = "extract" /\ pc'[t] # "extract")
              => LET r == extract_payload(apk.blob, apk.hash)
                     d == decrypt_payload(apk.blob, get_aes_key)
                 IN  /\ DigestMismatch
                           => /\ r = Failure("integrity", FALSE, 0)
                              /\ pc'[t] = "idle"
                              /\ outcome'[t] = "failed"
                              /\ ~marker'
                     /\ apk.hash = ZeroHash
                           => /\ r = d
                              /\ (d.kind = "ok" /\ pc'[t] # "idle")
                                    => (pc'[t] = "assets" /\ payload'[t] = d.entries)]_vars

C13_Witness ==
    /\ DigestMismatch
    /\ ~marker
    /\ \E t \in Threads : pc[t] = "idle" /\ outcome[t] = "failed" /\ touched[t]
    /\ \E t \in Threads : entry[t] = "AppInfo" /\ pc[t] = "cas"

(* C14  In the Context-based entry points an error of verify_integrity (a  *)
(* certificate digest mismatch included) is logged only: the call goes on   *)
(* to extract_payload with the marker still set; the AppInfo entry point    *)
(* never runs verify_integrity                                              *)
C14_VerifyLoggedOnly ==
    [][\A t \in Threads :
          /\ pc[t] = "verify"
                => /\ entry[t] \in {"App", "Provider"}
                   /\ pc'[t] # "verify"
                         => (pc'[t] = "extract" /\ marker' /\ outcome'[t] = "running")
          /\ (entry[t] = "AppInfo" /\ pc'[t] = "extract")
                => pc[t] \in {"mkdir", "extract"}]_vars

C14_Witness ==
    /\ ~apk.certOk
    /\ marker
    /\ splices = 1
    /\ \E t \in Threads : entry[t] \in {"App", "Provider"} /\ pc[t] = "native_prep"

(* C27  At most one thread is between its successful compare-and-set on     *)
(* DEX_LOAD_MARKER and its return, the marker is set for as long as it is,  *)
(* and every step that clears the marker is the return of the one thread    *)
(* that holds it: no clear releases a marker held by another call           *)
C27_MutualExclusion ==
    /\ [](Cardinality(Holders) <= 1 /\ (Holders # {} => marker))
    /\ [][(marker /\ ~marker')
              => \E t \in Threads : Holders = {t} /\ pc'[t] = "idle"]_vars

C27_Witness ==
    \E t, u \in Threads :
        /\ marker
        /\ Holders = {u}
        /\ pc[u] = "extract"
        /\ pc[t] = "idle"
        /\ outcome[t] = "failed"
        /\ batchClears >= 1

-----------------------------------------------------------------------------
(* Packer: entry selection and naming (packer/src/main.rs 56-168).          *)
(* Strings are the sequences of their bytes.                                *)

\* "classes", ".dex", "lib/", ".so", "lib"
STR_CLASSES == <<99, 108, 97, 115, 115, 101, 115>>
STR_DEX == <<46, 100, 101, 120>>
STR_LIB_DIR == <<108, 105, 98, 47>>
STR_SO == <<46, 115, 111>>
STR_LIB == <<108, 105, 98>>

\* "classes.dex", "assets/kapp_payload.bin"
CLASSES_DEX == <<99, 108, 97, 115, 115, 101, 115, 46, 100, 101, 120>>
PAYLOAD_PATH == <<97, 115, 115, 101, 116, 115, 47, 107, 97, 112, 112, 95, 112, 97,
                  121, 108, 111, 97, 100, 46, 98, 105, 110>>

\* is_payload_entry
is_payload_entry(name) ==
    LET is_dex == StartsWith(name, STR_CLASSES) /\ EndsWith(name, STR_DEX)
        is_lib == StartsWith(name, STR_LIB_DIR) /\ EndsWith(name, STR_SO)
    IN  is_dex \/ is_lib

\* char::is_whitespace on the ASCII bytes
IsSpace(b) == b \in {9, 10, 11, 12, 13, 32}

\* str::trim
RECURSIVE TrimStart(_)
TrimStart(str) ==
    IF str # <<>> /\ IsSpace(Head(str)) THEN TrimStart(Tail(str)) ELSE str

RECURSIVE TrimEnd(_)
TrimEnd(str) ==
    IF str # <<>> /\ IsSpace(str[Len(str)]) THEN TrimEnd(Take(str, Len(str) - 1)) ELSE str

Trim(str) == TrimEnd(TrimStart(str))

\* str::trim_matches('.')
RECURSIVE TrimDots(_)
TrimDots(str) ==
    IF str # <<>> /\ Head(str) = 46 THEN TrimDots(Tail(str))
    ELSE IF str # <<>> /\ str[Len(str)] = 46 THEN TrimDots(Take(str, Len(str) - 1))
    ELSE str

\* str::replace('.', "/")
DotsToSlashes(str) == [i \in 1..Len(str) |-> IF str[i] = 46 THEN 47 ELSE str[i]]

\* to_dex_descriptor: "L...;" is taken as it is, a.b.C becomes La/b/C;
to_dex_descriptor(class_name) ==
    LET trimmed == Trim(class_name)
    IN  IF StartsWith(trimmed, <<76>>) /\ EndsWith(trimmed, <<59>>) THEN trimmed
        ELSE <<76>> \o DotsToSlashes(trimmed) \o <<59>>

\* main 62-69: a.b becomes La/b/
to_keep_prefix(prefix) ==
    <<76>> \o DotsToSlashes(TrimDots(Trim(prefix))) \o <<47>>

\* str::parse::<usize>: an optional '+', then one or more decimal digits;
\* -1 stands for Err (the names of the model carry at most two digits, far
\* from usize::MAX)
RECURSIVE DigitsValue(_, _)
DigitsValue(str, acc) ==
    IF str = <<>> THEN acc
    ELSE IF Head(str) \notin 48..57 THEN -1
    ELSE DigitsValue(Tail(str), 10 * acc + (Head(str) - 48))

ParseUsize(str) ==
    LET digits == IF str # <<>> /\ Head(str) = 43 THEN Tail(str) ELSE str
    IN  IF digits = <<>> THEN -1 ELSE DigitsValue(digits, 0)

\* class_index: -1 stands for None
class_index(name) ==
    IF name = CLASSES_DEX THEN 1
    ELSE IF StartsWith(name, STR_CLASSES) /\ EndsWith(name, STR_DEX)
    THEN LET middle == SubSeq(name, 8, Len(name) - 4)
         IN  IF middle = <<>> THEN 1 ELSE ParseUsize(middle)
    ELSE -1

\* the decimal digits of n, as format!("{}", n) writes them
RECURSIVE Decimal(_)
Decimal(n) == IF n < 10 THEN <<48 + n>> ELSE Decimal(n \div 10) \o <<48 + (n % 10)>>

\* dex_name_for_index
dex_name_for_index(index) ==
    IF index = 1 THEN CLASSES_DEX ELSE STR_CLASSES \o Decimal(index) \o STR_DEX

\* dex_bytes.windows(needle.len()).any(|window| window == needle), for a
\* needle that is not empty (windows(0) panics; no descriptor or prefix the
\* packer builds is empty)
ContainsBytes(dex_bytes, needle) ==
    \E i \in 1..(Len(dex_bytes) - Len(needle) + 1) :
        SubSeq(dex_bytes, i, i + Len(needle) - 1) = needle

\* faulty variant of should_keep_dex: the descriptor is looked for at the
\* start of the dex only
should_keep_dex_AtStart(name, dex_bytes, keep_descriptors) ==
    \E d \in 1..Len(keep_descriptors) : StartsWith(dex_bytes, keep_descriptors[d])

\* should_keep_dex
should_keep_dex(name, dex_bytes, keep_descriptors) ==
    \E d \in 1..Len(keep_descriptors) : ContainsBytes(dex_bytes, keep_descriptors[d])

\* matches_keep_prefix
matches_keep_prefix(dex_bytes, keep_prefixes) ==
    \E d \in 1..Len(keep_prefixes) : ContainsBytes(dex_bytes, keep_prefixes[d])

\* Path::new(name).file_name() of an entry name that ends in a file name:
\* the bytes after the last '/'
RECURSIVE FileName(_)
FileName(name) ==
    IF \E i \in 1..Len(name) : name[i] = 47
    THEN FileName(Drop(name, CHOOSE i \in 1..Len(name) : name[i] = 47))
    ELSE name

\* faulty variant of should_keep_lib: libX is matched as a prefix
should_keep_lib_Prefix(name, keep_libs) ==
    LET filename == FileName(name)
    IN  \E k \in 1..Len(keep_libs) :
            \/ filename = keep_libs[k]
            \/ StartsWith(filename, STR_LIB \o keep_libs[k])
            \/ filename = keep_libs[k] \o STR_SO

\* should_keep_lib
should_keep_lib(name, keep_libs) ==
    LET filename == FileName(name)
    IN  \E k \in 1..Len(keep_libs) :
            \/ filename = keep_libs[k]
            \/ filename = STR_LIB \o keep_libs[k] \o STR_SO
            \/ filename = keep_libs[k] \o STR_SO

-----------------------------------------------------------------------------
(* Packer: one run of main (packer/src/main.rs 47-100, 170-212, 239-409) *)

\* the most entries a target archive of the model holds
MaxTargetEntries == 3

\* the entries target archives are made of, in the order a target lists them
TargetPool == <<
    \* classes3.dex (holds "La/C;")
    [name |-> <<99, 108, 97, 115, 115, 101, 115, 51, 46, 100, 101, 120>>,
     data |-> <<76, 97, 47, 67, 59, 0>>],
    \* classes.dex (holds "La/B;")
    [name |-> <<99, 108, 97, 115, 115, 101, 115, 46, 100, 101, 120>>,
     data |-> <<0, 76, 97, 47, 66, 59>>],
    \* classes2.dex
    [name |-> <<99, 108, 97, 115, 115, 101, 115, 50, 46, 100, 101, 120>>,
     data |-> <<1, 2, 3>>],
    \* classesfoo.dex (holds "La/B;")
    [name |-> <<99, 108, 97, 115, 115, 101, 115, 102, 111, 111, 46, 100, 101, 120>>,
     data |-> <<4, 76, 97, 47, 66, 59>>],
    \* classes/x.dex
    [name |-> <<99, 108, 97, 115, 115, 101, 115, 47, 120, 46, 100, 101, 120>>,
     data |-> <<5>>],
    \* lib/x.so
    [name |-> <<108, 105, 98, 47, 120, 46, 115, 111>>,
     data |-> <<6>>],
    \* lib/arm64-v8a/libfoo.so
    [name |-> <<108, 105, 98, 47, 97, 114, 109, 54, 52, 45, 118, 56, 97, 47, 108,
               105, 98, 102, 111, 111, 46, 115, 111>>,
     data |-> <<7>>],
    \* lib/arm64-v8a/foo.so
    [name |-> <<108, 105, 98, 47, 97, 114, 109, 54, 52, 45, 118, 56, 97, 47, 102,
               111, 111, 46, 115, 111>>,
     data |-> <<8>>],
    \* lib/arm64-v8a/foo
    [name |-> <<108, 105, 98, 47, 97, 114, 109, 54, 52, 45, 118, 56, 97, 47, 102,
               111, 111>>,
     data |-> <<9>>],
    \* lib/arm64-v8a/libfoobar.so
    [name |-> <<108, 105, 98, 47, 97, 114, 109, 54, 52, 45, 118, 56, 97, 47, 108,
               105, 98, 102, 111, 111, 98, 97, 114, 46, 115, 111>>,
     data |-> <<10>>],
    \* assets/kapp_payload.bin (a blob left by an earlier pack)
    [name |-> <<97, 115, 115, 101, 116, 115, 47, 107, 97, 112, 112, 95, 112, 97,
               121, 108, 111, 97, 100, 46, 98, 105, 110>>,
     data |-> <<11>>],
    \* AndroidManifest.xml
    [name |-> <<65, 110, 100, 114, 111, 105, 100, 77, 97, 110, 105, 102, 101, 115,
               116, 46, 120, 109, 108>>,
     data |-> <<12>>],
    \* lib/arm64-v8a/libshell.so (a library of the target's own)
    [name |-> <<108, 105, 98, 47, 97, 114, 109, 54, 52, 45, 118, 56, 97, 47, 108,
               105, 98, 115, 104, 101, 108, 108, 46, 115, 111>>,
     data |-> <<15>>]>>

\* the entries of pool whose index is in S, in pool order
RECURSIVE PickEntries(_, _, _)
PickEntries(pool, S, i) ==
    IF i > Len(pool) THEN <<>>
    ELSE (IF i \in S THEN <<pool[i]>> ELSE <<>>) \o PickEntries(pool, S, i + 1)

Targets ==
    {PickEntries(TargetPool, S, 1) :
        S \in {S \in SUBSET (1..Len(TargetPool)) : Cardinality(S) <= MaxTargetEntries}}

\* command lines: an Option is <<>> (None) or <<value>> (Some)
NoArgs == [keep_class |-> <<>>, keep_prefix |-> <<>>, keep_lib |-> <<>>,
           patched_manifest |-> <<>>, resources |-> <<>>]

\* --keep-class a.B; --keep-prefix " a."; --keep-lib foo;
\* --keep-class "La/B;" --keep-lib foo --keep-lib shell
\* --patched-manifest <file> --resources <file>
ArgSets ==
    {NoArgs,
     [NoArgs EXCEPT !.keep_class = <<(<<97, 46, 66>>)>>],
     [NoArgs EXCEPT !.keep_prefix = <<(<<32, 97, 46>>)>>],
     [NoArgs EXCEPT !.keep_lib = <<(<<102, 111, 111>>)>>],
     [NoArgs EXCEPT !.keep_class = <<(<<76, 97, 47, 66, 59>>)>>,
                    !.keep_lib = <<(<<102, 111, 111>>), (<<115, 104, 101, 108, 108>>)>>,
                    !.patched_manifest = <<(<<13>>)>>,
                    !.resources = <<(<<14>>)>>]}

\* "arm64-v8a", "x86"
ABI_ARM64 == <<97, 114, 109, 54, 52, 45, 118, 56, 97>>
ABI_X86 == <<120, 56, 54>>

\* bootstrap inputs: two dex sections listed out of order; one dex section
\* and two ABIs; no dex section; no libshell.so
Bootstraps ==
    LET d1 == [name |-> CLASSES_DEX, data |-> <<21>>]
        d2 == [name |-> dex_name_for_index(2), data |-> <<22>>]
    IN  {[dex |-> <<d2, d1>>, abis |-> <<ABI_ARM64>>],
         [dex |-> <<d1>>, abis |-> <<ABI_ARM64, ABI_X86>>],
         [dex |-> <<>>, abis |-> <<ABI_ARM64>>],
         [dex |-> <<d1>>, abis |-> <<>>]}

\* what rand::thread_rng() may fill the nonces of a run with: a generator
\* stuck at zero, or a fresh value per entry
PackerNonceStreams ==
    {[i \in 1..(MaxTargetEntries + 1) |-> [j \in 1..NONCE_LEN |-> 0]],
     [i \in 1..(MaxTargetEntries + 1) |-> [j \in 1..NONCE_LEN |-> 16 * i + j]]}

\* main 56-69
keep_descriptors ==
    [i \in 1..Len(args.keep_class) |-> to_dex_descriptor(args.keep_class[i])]

keep_prefixes ==
    [i \in 1..Len(args.keep_prefix) |-> to_keep_prefix(args.keep_prefix[i])]

\* the test of collect_and_encrypt_payload_entries (185-202): the entry is
\* a payload entry and is not kept in plaintext
IsEncrypted(e, descriptors, prefixes, keep_libs) ==
    /\ is_payload_entry(e.name)
    /\ ~(/\ EndsWith(e.name, STR_DEX)
         /\ \/ should_keep_dex(e.name, e.data, descriptors)
            \/ matches_keep_prefix(e.data, prefixes))
    /\ ~(EndsWith(e.name, STR_SO) /\ should_keep_lib(e.name, keep_libs))

\* collect_and_encrypt_payload_entries: the loop over the target's entries
RECURSIVE collect_and_encrypt_payload_entries(_, _, _, _, _, _, _)
collect_and_encrypt_payload_entries(zip, i, descriptors, prefixes, keep_libs, nonces, entries) ==
    IF i > Len(zip) THEN entries
    ELSE collect_and_encrypt_payload_entries(zip, i + 1, descriptors, prefixes, keep_libs,
             nonces,
             IF IsEncrypted(zip[i], descriptors, prefixes, keep_libs)
             THEN LET e == encrypt_payload(zip[i].data, nonces[Len(entries) + 1])
                  IN  Append(entries, [name |-> zip[i].name, enc |-> e.enc, nonce |-> e.nonce])
             ELSE entries)

\* "AndroidManifest.xml", "resources.arsc"
RESOURCES_NAME == <<114, 101, 115, 111, 117, 114, 99, 101, 115, 46, 97, 114, 115, 99>>

MANIFEST_NAME == <<65, 110, 100, 114, 111, 105, 100, 77, 97, 110, 105, 102, 101, 115,
                   116, 46, 120, 109, 108>>

\* the names of payload_entries: main's encrypted_entry_names
EncryptedEntryNames(entries) == {entries[i].name : i \in 1..Len(entries)}

\* ZipFile::is_dir
IsDir(name) == EndsWith(name, <<47>>)

\* faulty variant of CopyTarget: encrypted entries are copied as well
RECURSIVE CopyTarget_CopyAll(_, _, _, _, _, _)
CopyTarget_CopyAll(zip, i, encrypted_entry_names, patched_manifest, resources_arsc, acc) ==
    IF i > Len(zip) THEN acc
    ELSE CopyTarget_CopyAll(zip, i + 1, encrypted_entry_names, patched_manifest,
             resources_arsc,
             IF zip[i].name = PAYLOAD_PATH THEN acc
             ELSE IF class_index(zip[i].name) # -1
             THEN [acc EXCEPT !.retained =
                      Append(@, [index |-> class_index(zip[i].name), data |-> zip[i].data])]
             ELSE [acc EXCEPT !.out = Append(@, zip[i])])

\* the loop of repack_target_with_bootstrap over the target (273-312): what
\* it writes to the output and what it sets aside in retained_dex_entries
RECURSIVE CopyTarget(_, _, _, _, _, _)
CopyTarget(zip, i, encrypted_entry_names, patched_manifest, resources_arsc, acc) ==
    IF i > Len(zip) THEN acc
    ELSE LET name == zip[i].name
             next ==
                IF name = PAYLOAD_PATH \/ name \in encrypted_entry_names THEN acc
                ELSE IF name = MANIFEST_NAME /\ patched_manifest # <<>>
                THEN [acc EXCEPT !.out =
                         Append(@, [name |-> name, data |-> patched_manifest[1]])]
                ELSE IF name = RESOURCES_NAME /\ resources_arsc # <<>>
                THEN [acc EXCEPT !.out =
                         Append(@, [name |-> name, data |-> resources_arsc[1]])]
                ELSE IF IsDir(name)
                THEN [acc EXCEPT !.out = Append(@, [name |-> name, data |-> <<>>])]
                ELSE IF class_index(name) # -1
                THEN [acc EXCEPT !.retained =
                         Append(@, [index |-> class_index(name), data |-> zip[i].data])]
                ELSE [acc EXCEPT !.out = Append(@, zip[i])]
         IN  CopyTarget(zip, i + 1, encrypted_entry_names, patched_manifest,
                        resources_arsc, next)

\* an entry put into a list that is sorted by index, after its equals
RECURSIVE InsertByIndex(_, _)
InsertByIndex(sorted, e) ==
    IF sorted = <<>> THEN <<e>>
    ELSE IF e.index < Head(sorted).index THEN <<e>> \o sorted
    ELSE <<Head(sorted)>> \o InsertByIndex(Tail(sorted), e)

\* faulty variant of SortByIndex: the list is left in archive order
SortByIndex_Unsorted(list, sorted) == list

\* slice::sort_by_key(|(index, _)| *index): a stable sort
RECURSIVE SortByIndex(_, _)
SortByIndex(list, sorted) ==
    IF list = <<>> THEN sorted
    ELSE SortByIndex(Tail(list), InsertByIndex(sorted, Head(list)))

\* get_bootstrap_dex_entries before its emptiness check: the bytes of the
\* bootstrap archive's classes<k>.dex entries, sorted by k
RECURSIVE IndexedDex(_, _)
IndexedDex(zip, i) ==
    IF i > Len(zip) THEN <<>>
    ELSE (IF class_index(zip[i].name) # -1
          THEN <<[index |-> class_index(zip[i].name), data |-> zip[i].data]>>
          ELSE <<>>) \o IndexedDex(zip, i + 1)

get_bootstrap_dex_entries(zip) == SortByIndex(IndexedDex(zip, 1), <<>>)

\* the entries written for a sorted dex list, named from index first + 1 on
DexEntriesFrom(list, first) ==
    [i \in 1..Len(list) |-> [name |-> dex_name_for_index(first + i), data |-> list[i].data]]

\* "lib/<abi>/libshell.so"
LibshellPath(abi) ==
    STR_LIB_DIR \o abi \o <<47, 108, 105, 98, 115, 104, 101, 108, 108, 46, 115, 111>>

\* the library bytes found at <bootstrap_lib_dir>/<abi>/libshell.so
LibshellBytes(abi) == <<31, Len(abi)>>

\* what a packer step leaves alone besides the packer's own variables
PackerFrame ==
    UNCHANGED <<codecVars, loaderVars, historyVars, landingVars, guiVars, args, target,
                bootstrap>>

PackerInit ==
    /\ phase = "packer"
    /\ inEntries = <<>>
    /\ encEntries = <<>>
    /\ packedBlob = <<>>
    /\ blob = <<>>
    /\ tamper = NoTamper
    /\ result = NoResult
    /\ apk = [blob |-> <<>>, hash |-> <<>>, certOk |-> TRUE]
    /\ LoaderIdle
    /\ LandingIdle
    /\ GuiIdle
    /\ pkPhase = "start"
    /\ args \in ArgSets
    /\ target \in Targets
    /\ bootstrap \in Bootstraps
    /\ payload_entries = <<>>
    /\ payload_blob = <<>>
    /\ retained_dex_entries = <<>>
    /\ output = <<>>
    /\ outputCreated = FALSE
    /\ pkError = "none"

\* main returns Err(error)
PackerFails(error) ==
    /\ pkPhase' = "failed"
    /\ pkError' = error

\* main 56-77: the keep lists are built and the target's entries collected
CollectEntries ==
    /\ pkPhase = "start"
    /\ \E nonces \in PackerNonceStreams :
         payload_entries' =
             collect_and_encrypt_payload_entries(target, 1, keep_descriptors, keep_prefixes,
                 args.keep_lib, nonces, <<>>)
    /\ pkPhase' = "collected"
    /\ UNCHANGED <<payload_blob, retained_dex_entries, output, outputCreated, pkError>>
    /\ PackerFrame

\* main 78-86: the empty-selection bail, else build_payload_blob
BuildBlob ==
    /\ pkPhase = "collected"
    /\ IF payload_entries = <<>>
       THEN /\ PackerFails("empty_selection")
            /\ UNCHANGED payload_blob
       ELSE /\ payload_blob' = build_payload_blob(payload_entries)
            /\ pkPhase' = "built"
            /\ UNCHANGED pkError
    /\ UNCHANGED <<payload_entries, retained_dex_entries, output, outputCreated>>
    /\ PackerFrame

\* repack_target_with_bootstrap 249-314: the output file is created, the
\* target's entries are copied or set aside, the retained dex list is sorted
RepackCopy ==
    /\ pkPhase = "built"
    /\ outputCreated' = TRUE
    /\ LET r == CopyTarget(target, 1, EncryptedEntryNames(payload_entries),
                           args.patched_manifest, args.resources,
                           [out |-> <<>>, retained |-> <<>>])
       IN  /\ output' = r.out
           /\ retained_dex_entries' = SortByIndex(r.retained, <<>>)
    /\ pkPhase' = "copied"
    /\ UNCHANGED <<payload_entries, payload_blob, pkError>>
    /\ PackerFrame

\* 317-325: get_bootstrap_dex_entries, which fails on an archive without a
\* classes<k>.dex, and the bootstrap sections written from index 1 on
RepackBootstrapDex ==
    /\ pkPhase = "copied"
    /\ LET bootstrap_dex_entries == get_bootstrap_dex_entries(bootstrap.dex)
       IN  IF bootstrap_dex_entries = <<>>
           THEN /\ PackerFails("no_bootstrap_dex")
                /\ UNCHANGED output
           ELSE /\ output' = output \o DexEntriesFrom(bootstrap_dex_entries, 0)
                /\ pkPhase' = "bootstrap_dex"
                /\ UNCHANGED pkError
    /\ UNCHANGED <<payload_entries, payload_blob, retained_dex_entries, outputCreated>>
    /\ PackerFrame

\* 328-332: the retained sections written from the next index on
RepackRetainedDex ==
    /\ pkPhase = "bootstrap_dex"
    /\ LET num_bootstrap_dexes == Len(get_bootstrap_dex_entries(bootstrap.dex))
       IN  output' = output \o DexEntriesFrom(retained_dex_entries, num_bootstrap_dexes)
    /\ pkPhase' = "retained_dex"
    /\ UNCHANGED <<payload_entries, payload_blob, retained_dex_entries, outputCreated, pkError>>
    /\ PackerFrame

RepackLibs_NoBail ==
    /\ pkPhase = "retained_dex"
    /\ output' = output \o
           [i \in 1..Len(bootstrap.abis) |->
               [name |-> LibshellPath(bootstrap.abis[i]),
                data |-> LibshellBytes(bootstrap.abis[i])]]
    /\ pkPhase' = "libs"
    /\ UNCHANGED <<payload_entries, payload_blob, retained_dex_entries, outputCreated, pkError>>
    /\ PackerFrame

\* 334: inject_bootstrap_libs, which fails when no ABI directory holds a
\* libshell.so
RepackLibs ==
    /\ pkPhase = "retained_dex"
    /\ IF bootstrap.abis = <<>>
       THEN /\ PackerFails("no_libshell")
            /\ UNCHANGED output
       ELSE /\ output' = output \o
                   [i \in 1..Len(bootstrap.abis) |->
                       [name |-> LibshellPath(bootstrap.abis[i]),
                        data |-> LibshellBytes(bootstrap.abis[i])]]
            /\ pkPhase' = "libs"
            /\ UNCHANGED pkError
    /\ UNCHANGED <<payload_entries, payload_blob, retained_dex_entries, outputCreated>>
    /\ PackerFrame

\* 336-343 and main 98-99: the blob is written, the archive finished
RepackPayload ==
    /\ pkPhase = "libs"
    /\ output' = Append(output, [name |-> PAYLOAD_PATH, data |-> payload_blob])
    /\ pkPhase' = "done"
    /\ UNCHANGED <<payload_entries, payload_blob, retained_dex_entries, outputCreated, pkError>>
    /\ PackerFrame

\* an archive or file operation fails (any `?` on I/O): before the output
\* exists only while the target is read or opened
PackerIoError ==
    /\ pkPhase \in {"start", "built", "copied", "bootstrap_dex", "retained_dex", "libs"}
    /\ PackerFails("io")
    /\ outputCreated' \in (IF pkPhase = "built" THEN BOOLEAN ELSE {outputCreated})
    /\ UNCHANGED <<payload_entries, payload_blob, retained_dex_entries, output>>
    /\ PackerFrame

PackerNext ==
    \/ CollectEntries
    \/ BuildBlob
    \/ RepackCopy
    \/ RepackBootstrapDex
    \/ RepackRetainedDex
    \/ RepackLibs
    \/ RepackPayload
    \/ PackerIoError

PackerSpec == PackerInit /\ [][PackerNext]_vars

-----------------------------------------------------------------------------
(* Properties of a packer run (PackerSpec) *)

TargetEntries == {target[i] : i \in 1..Len(target)}

\* the entries the loader gets back from the blob that was written
BlobEntries == decrypt_payload(payload_blob, get_aes_key).entries

\* e is one of the (name, plaintext) pairs of a decrypted blob
EntryOf(entries, e) == \E k \in 1..Len(entries) : entries[k] = <<e.name, e.data>>

\* e is an entry of the payload blob
InBlob(e) == EntryOf(BlobEntries, e)

\* e's plaintext bytes are in the output archive (the entries of the model
\* differ pairwise in their bytes)
PlainInOutput(e) == \E j \in 1..Len(output) : output[j].data = e.data

Retained(e) == PlainInOutput(e) /\ ~InBlob(e)

Encrypted(e) == InBlob(e) /\ ~PlainInOutput(e)

\* the dex bytes hold a keep descriptor or a keep prefix as a substring
HasKeepMark(e) ==
    \/ \E d \in 1..Len(keep_descriptors) : ContainsBytes(e.data, keep_descriptors[d])
    \/ \E d \in 1..Len(keep_prefixes) : ContainsBytes(e.data, keep_prefixes[d])

(* C15  After a pack, a dex candidate is retained in plaintext and absent   *)
(* from the blob if and only if its bytes hold a keep descriptor or a keep  *)
(* prefix as a substring; every other dex candidate is in the blob          *)
C15_KeepDex ==
    pkPhase = "done"
        => \A e \in TargetEntries :
              (StartsWith(e.name, STR_CLASSES) /\ EndsWith(e.name, STR_DEX))
                  => IF HasKeepMark(e) THEN Retained(e) ELSE Encrypted(e)

C15_Witness ==
    /\ pkPhase = "done"
    /\ \E e, f \in TargetEntries :
          /\ class_index(e.name) # -1 /\ HasKeepMark(e) /\ Retained(e)
          /\ class_index(f.name) # -1 /\ ~HasKeepMark(f) /\ Encrypted(f)

\* the basename is X, libX.so or X.so for some X of --keep-lib
KeepLibName(name) ==
    \E k \in 1..Len(args.keep_lib) :
        FileName(name) \in {args.keep_lib[k],
                            STR_LIB \o args.keep_lib[k] \o STR_SO,
                            args.keep_lib[k] \o STR_SO}

(* C16  After a pack, a native-library candidate is retained in plaintext   *)
(* if and only if its basename is X, libX.so or X.so for a kept X, and is   *)
(* in the blob otherwise; a lib/<abi>/X that is no candidate stays in the   *)
(* output in plaintext                                                      *)
C16_KeepLib ==
    pkPhase = "done"
        => \A e \in TargetEntries :
              /\ (StartsWith(e.name, STR_LIB_DIR) /\ EndsWith(e.name, STR_SO))
                    => IF KeepLibName(e.name) THEN Retained(e) ELSE Encrypted(e)
              /\ (StartsWith(e.name, STR_LIB_DIR) /\ ~EndsWith(e.name, STR_SO))
                    => Retained(e)

C16_Witness ==
    /\ pkPhase = "done"
    /\ args.keep_lib # <<>>
    /\ \E e, f \in TargetEntries :
          /\ EndsWith(e.name, STR_SO) /\ KeepLibName(e.name) /\ Retained(e)
          /\ EndsWith(f.name, STR_SO) /\ StartsWith(FileName(f.name), STR_LIB \o args.keep_lib[1])
          /\ Encrypted(f)

(* C17  An entry of the target archive is a payload candidate, that is, it  *)
(* is encrypted into the blob or left in the output by its keep status, if  *)
(* and only if its name is classes<k>.dex with k empty or a positive        *)
(* integer, or lib/<abi>/<name>.so; an entry with any other name is neither *)
(* encrypted nor removed from the output                                    *)
C17_CandidateNames ==
    LET Slashes(name) == Cardinality({i \in 1..Len(name) : name[i] = 47})
        AllDigits(str) == \A i \in 1..Len(str) : str[i] \in 48..57
        DexForm(name) ==
            /\ StartsWith(name, STR_CLASSES) /\ EndsWith(name, STR_DEX)
            /\ Len(name) >= Len(STR_CLASSES) + Len(STR_DEX)
            /\ LET k == SubSeq(name, 8, Len(name) - 4)
               IN  k = <<>> \/ (AllDigits(k) /\ DigitsValue(k, 0) >= 1)
        LibForm(name) ==
            /\ StartsWith(name, STR_LIB_DIR) /\ EndsWith(name, STR_SO)
            /\ Slashes(name) = 2
            /\ name[5] # 47
            /\ name[Len(name) - 3] # 47
    IN  pkPhase = "done"
            => \A e \in TargetEntries :
                  /\ (DexForm(e.name) \/ LibForm(e.name)) => (Encrypted(e) \/ Retained(e))
                  /\ ~(DexForm(e.name) \/ LibForm(e.name))
                        => /\ ~InBlob(e)
                           /\ e.name # PAYLOAD_PATH
                                 => \E j \in 1..Len(output) : output[j].name = e.name

\* the classes<k>.dex entries of an archive, in archive order
RECURSIVE DexSections(_)
DexSections(zip) ==
    IF zip = <<>> THEN <<>>
    ELSE (IF class_index(Head(zip).name) # -1 THEN <<Head(zip)>> ELSE <<>>)
             \o DexSections(Tail(zip))

\* the bootstrap dex sections, and the target's dex sections that were kept
\* in plaintext
BootstrapSections == {bootstrap.dex[i] : i \in 1..Len(bootstrap.dex)}

RetainedSections == {e \in TargetEntries : class_index(e.name) # -1 /\ Retained(e)}

\* the section of a set that carries the given bytes
SectionOf(set, data) == CHOOSE e \in set : e.data = data

(* C18  In the output of a pack with B bootstrap dex sections and R         *)
(* retained original dex sections, the dex entries are named classes.dex,   *)
(* classes2.dex, ..., classes<B+R>.dex without gap or duplicate; the first  *)
(* B hold the bootstrap sections in ascending order of their bootstrap      *)
(* index, the next R the retained originals in ascending order of their     *)
(* original index                                                           *)
C18_DexNumbering ==
    pkPhase = "done"
        => LET dex == DexSections(output)
               B == Cardinality(BootstrapSections)
               R == Cardinality(RetainedSections)
               Ascending(set, from, to) ==
                   /\ {dex[i].data : i \in from..to} = {e.data : e \in set}
                   /\ \A i, j \in from..to :
                          i < j => class_index(SectionOf(set, dex[i].data).name)
                                      <= class_index(SectionOf(set, dex[j].data).name)
           IN  /\ Len(dex) = B + R
               /\ \A i \in 1..Len(dex) : dex[i].name = dex_name_for_index(i)
               /\ Ascending(BootstrapSections, 1, B)
               /\ Ascending(RetainedSections, B + 1, B + R)

C18_Witness ==
    /\ pkPhase = "done"
    /\ Cardinality(BootstrapSections) = 2
    /\ class_index(bootstrap.dex[1].name) > class_index(bootstrap.dex[2].name)
    /\ Cardinality(RetainedSections) = 2
    /\ \E i, j \in 1..Len(target) :
          /\ i < j
          /\ {target[i], target[j]} = RetainedSections
          /\ class_index(target[i].name) > class_index(target[j].name)
    /\ Len(DexSections(output)) = 4

\* the positions of the output archive that carry the payload storage path
PayloadSlots == {j \in 1..Len(output) : output[j].name = PAYLOAD_PATH}

(* C19  After a successful pack every payload candidate of the target is    *)
(* either encrypted (an entry of the blob, its plaintext not in the output) *)
(* or retained (not in the blob, its plaintext in the output), never both   *)
(* and never neither; an assets/kapp_payload.bin of the target is dropped   *)
(* and the output holds the new blob in its place                           *)
C19_EncryptedOrRetained ==
    pkPhase = "done"
        => /\ LET entries == BlobEntries
              IN  \A e \in TargetEntries :
                      is_payload_entry(e.name)
                          => EntryOf(entries, e) # PlainInOutput(e)
           /\ Cardinality(PayloadSlots) = 1
           /\ \A j \in PayloadSlots : output[j].data = payload_blob
           /\ \A e \in TargetEntries : e.name = PAYLOAD_PATH => ~PlainInOutput(e)

C19_Witness ==
    /\ pkPhase = "done"
    /\ \E e, f, g \in TargetEntries :
          /\ is_payload_entry(e.name) /\ Encrypted(e)
          /\ is_payload_entry(f.name) /\ Retained(f)
          /\ g.name = PAYLOAD_PATH /\ g.data # payload_blob
    /\ \E j \in PayloadSlots : output[j].data = payload_blob

(* C20  Once the selection is over and no file operation has failed, the    *)
(* packer has failed with the empty-selection error exactly when the target *)
(* archive holds no payload candidate at all, and at that failure the       *)
(* output archive has been neither created nor written                      *)
C20_EmptySelection ==
    (pkPhase \notin {"start", "collected"} /\ pkError # "io")
        => /\ pkError = "empty_selection"
                  <=> ~\E e \in TargetEntries : is_payload_entry(e.name)
           /\ pkError = "empty_selection" => (~outputCreated /\ output = <<>>)

(* C21  The packer never reports success when the bootstrap archive holds   *)
(* no classes<k>.dex or the bootstrap library directory holds no            *)
(* <abi>/libshell.so: such a run ends in an error, and an output reported   *)
(* as written holds the first bootstrap section as classes.dex and a        *)
(* lib/<abi>/libshell.so                                                    *)
C21_BootstrapRequired ==
    LET sections == {e \in BootstrapSections : class_index(e.name) # -1}
    IN  /\ pkPhase = "done"
              => /\ pkError = "none"
                 /\ sections # {}
                 /\ bootstrap.abis # <<>>
                 /\ \E j \in 1..Len(output), e \in sections :
                        /\ output[j].name = CLASSES_DEX
                        /\ output[j].data = e.data
                        /\ \A f \in sections : class_index(e.name) <= class_index(f.name)
                 /\ \E j \in 1..Len(output), a \in 1..Len(bootstrap.abis) :
                        /\ output[j].name = LibshellPath(bootstrap.abis[a])
                        /\ output[j].data = LibshellBytes(bootstrap.abis[a])
        /\ pkPhase = "failed" => pkError # "none"
        /\ pkError = "no_bootstrap_dex" => (pkPhase = "failed" /\ sections = {})
        /\ pkError = "no_libshell" => (pkPhase = "failed" /\ bootstrap.abis = <<>>)

C21_Witness ==
    /\ pkPhase = "failed"
    /\ pkError = "no_libshell"
    /\ bootstrap.abis = <<>>
    /\ BootstrapSections # {}
    /\ payload_entries # <<>>
    /\ outputCreated

-----------------------------------------------------------------------------
(* One launch of the loader on a device: the entry point past its          *)
(* compare-and-set, from extract_payload through load_dex_core, with the   *)
(* files and class-loader calls it makes                                   *)

\* the longest payload a launch decrypts
MaxLanded == 3

\* "assets/"
STR_ASSETS == <<97, 115, 115, 101, 116, 115, 47>>

\* format!("lib/{}/", current_abi)
lib_prefix(abi) == STR_LIB_DIR \o abi \o <<47>>

\* the ABIs the loader library is built for in the model (get_current_abi)
Abis == {ABI_ARM64, ABI_X86}

\* plain payload entries: classes.dex, lib/arm64-v8a/a.so, lib/x86/a.so,
\* assets/a, classes2.dex, assets/b
LandingPool ==
    <<ApkDex,
      ApkLib,
      [name |-> lib_prefix(ABI_X86) \o <<97>> \o STR_SO, plain |-> <<4>>],
      [name |-> STR_ASSETS \o <<97>>, plain |-> <<5>>],
      [name |-> dex_name_for_index(2), plain |-> <<6>>],
      [name |-> STR_ASSETS \o <<98>>, plain |-> <<7>>]>>

\* the payloads of the model: up to MaxLanded entries of the pool, in pool
\* order
LandingPayloads ==
    {PickEntries(LandingPool, S, 1) :
        S \in {S \in SUBSET (1..Len(LandingPool)) :
                  Cardinality(S) >= 1 /\ Cardinality(S) <= MaxLanded}}

\* the (name, plaintext) pairs decrypt_payload returns for a packed list
Decrypted(list) == [i \in 1..Len(list) |-> <<list[i].name, list[i].plain>>]

\* the last ciphertext byte of a packed blob (the end of the last entry's tag)
LastCipherByte(packed) ==
    Len(packed) - FOOTER_LEN
        - U32FromLE(SubSeq(packed, Len(packed) - 8, Len(packed) - 5)).lo

\* the payload of the installed archive: as packed ("none"), or with the
\* first or the last ciphertext byte changed
Tampers == {"none", "first", "last"}

InstalledBlob(list, how) ==
    LET good == PackedBlobOf(list)
    IN  IF how = "first" THEN [good EXCEPT ![1] = (@ + 1) % 256]
        ELSE IF how = "last" THEN [good EXCEPT ![LastCipherByte(good)] = (@ + 1) % 256]
        ELSE good

\* <cache>/dex_landing with no file in it
EmptyDexDir == [i \in 0..(MaxLanded - 1) |-> <<>>]

\* faulty variant of extract_assets_core: every entry is stored
extract_assets_core_All(list) ==
    [i \in 1..Len(list) |-> [name |-> list[i][1], data |-> list[i][2], method |-> "Stored"]]

\* extract_assets_core: the entries written to kapp_assets.zip
RECURSIVE extract_assets_core(_)
extract_assets_core(list) ==
    IF list = <<>> THEN <<>>
    ELSE (IF StartsWith(Head(list)[1], STR_ASSETS)
          THEN <<[name |-> Head(list)[1], data |-> Head(list)[2], method |-> "Stored"]>>
          ELSE <<>>) \o extract_assets_core(Tail(list))

\* File::create(path) on <cache>/dex_landing/payload_<i>.dex: open for
\* writing with O_CREAT | O_TRUNC, refused with EACCES when the file exists
\* and is read-only
FileCreateOk(slot) == slot = <<>> \/ ~slot[1].readonly

\* faulty variant of LandFiles: every library below lib/ is written
RECURSIVE LandFiles_AnyAbi(_, _, _, _)
LandFiles_AnyAbi(list, i, abi, fs) ==
    IF i >= Len(list) THEN fs
    ELSE LET name == list[i + 1][1]
             data == list[i + 1][2]
         IN  LandFiles_AnyAbi(list, i + 1, abi,
                 IF EndsWith(name, DexSuffix)
                 THEN LET created == FileCreateOk(fs.dex[i])
                      IN  [fs EXCEPT
                              !.dex = IF created
                                      THEN [@ EXCEPT ![i] = <<[data |-> data, readonly |-> TRUE]>>]
                                      ELSE @,
                              !.paths = Append(@, i),
                              !.writes = IF created
                                         THEN @ \cup {[dir |-> "dex_landing", name |-> <<i>>, data |-> data]}
                                         ELSE @]
                 ELSE IF StartsWith(name, STR_LIB_DIR) /\ EndsWith(name, STR_SO)
                 THEN LET filename == FileName(name)
                      IN  [fs EXCEPT
                              !.libs = {f \in @ : f.name # filename}
                                           \cup {[name |-> filename, data |-> data]},
                              !.writes = @ \cup {[dir |-> "native_libs", name |-> filename, data |-> data]}]
                 ELSE fs)

\* the loop of load_file_landing over file_list.iter().enumerate() (lib.rs
\* 694-717): i is the index, fs the directories, dex_paths and the files
\* created so far. A dex entry goes to payload_<i>.dex, made read-only; when
\* File::create fails nothing is written and the path is pushed all the same.
\* A library of the current ABI goes to native_libs/<name without prefix>
RECURSIVE LandFiles(_, _, _, _)
LandFiles(list, i, abi, fs) ==
    IF i >= Len(list) THEN fs
    ELSE LET name == list[i + 1][1]
             data == list[i + 1][2]
         IN  LandFiles(list, i + 1, abi,
                 IF EndsWith(name, DexSuffix)
                 THEN LET created == FileCreateOk(fs.dex[i])
                      IN  [fs EXCEPT
                              !.dex = IF created
                                      THEN [@ EXCEPT ![i] = <<[data |-> data, readonly |-> TRUE]>>]
                                      ELSE @,
                              !.paths = Append(@, i),
                              !.writes = IF created
                                         THEN @ \cup {[dir |-> "dex_landing", name |-> <<i>>, data |-> data]}
                                         ELSE @]
                 ELSE IF StartsWith(name, lib_prefix(abi)) /\ EndsWith(name, STR_SO)
                 THEN LET filename == Drop(name, Len(lib_prefix(abi)))
                      IN  [fs EXCEPT
                              !.libs = {f \in @ : f.name # filename}
                                           \cup {[name |-> filename, data |-> data]},
                              !.writes = @ \cup {[dir |-> "native_libs", name |-> filename, data |-> data]}]
                 ELSE fs)

\* what an earlier launch of the same build left on the device
LeftBy(list, abi) ==
    LandFiles(Decrypted(list), 0, abi,
              [dex |-> EmptyDexDir, libs |-> {}, paths |-> <<>>, writes |-> {}])

\* a first launch, or a launch after one of an earlier installed payload
LaunchInit ==
    /\ phase = "launch"
    /\ inEntries = <<>>
    /\ encEntries = <<>>
    /\ packedBlob = <<>>
    /\ blob = <<>>
    /\ tamper = NoTamper
    /\ result = NoResult
    /\ apk = [blob |-> <<>>, hash |-> <<>>, certOk |-> TRUE]
    /\ LoaderIdle
    /\ PackerIdle
    /\ GuiIdle
    /\ ldPhase = "start"
    /\ ldAbi \in Abis
    /\ ldTamper \in Tampers
    /\ \E list \in LandingPayloads : ldBlob = InstalledBlob(list, ldTamper)
    /\ file_list = <<>>
    /\ \/ /\ fsDex = EmptyDexDir
          /\ fsLibs = {}
          /\ fsAssets = <<>>
       \/ \E earlier \in LandingPayloads :
             /\ fsDex = LeftBy(earlier, ldAbi).dex
             /\ fsLibs = LeftBy(earlier, ldAbi).libs
             /\ fsAssets = <<extract_assets_core(Decrypted(earlier))>>
    /\ dex_paths = <<>>
    /\ ldWrites = {}
    /\ ldCalls = <<>>
    /\ ldError = "none"

\* what a step of the launch leaves alone besides the launch's own variables
LaunchFrame ==
    UNCHANGED <<codecVars, loaderVars, historyVars, packerVars, guiVars, ldAbi, ldBlob,
                ldTamper>>

\* an error arm of the entry point: logged, the marker cleared, return
LaunchFails(error) ==
    /\ ldPhase' = "failed"
    /\ ldError' = error

\* extract_payload(&apk_path, true) of a development build: the archive is
\* opened and read (which may fail) and the blob decrypted
LaunchExtractPayload ==
    /\ ldPhase = "start"
    /\ \/ /\ LaunchFails("io")
          /\ UNCHANGED file_list
       \/ LET r == extract_payload(ldBlob, ZeroHash)
          IN  IF r.kind = "ok"
              THEN /\ file_list' = r.entries
                   /\ ldPhase' = "extracted"
                   /\ UNCHANGED ldError
              ELSE /\ LaunchFails(r.kind)
                   /\ UNCHANGED file_list
    /\ UNCHANGED <<fsDex, fsLibs, fsAssets, dex_paths, ldWrites, ldCalls>>
    /\ LaunchFrame

\* extract_assets_core: kapp_assets.zip is created anew and the assets/
\* entries stored in it, or create_dir_all / File::create fails
LaunchExtractAssets ==
    /\ ldPhase = "extracted"
    /\ \/ /\ fsAssets' = <<extract_assets_core(file_list)>>
          /\ ldWrites' = ldWrites \cup {[dir |-> "files", name |-> <<>>, data |-> <<>>]}
          /\ ldPhase' = "assets"
          /\ UNCHANGED ldError
       \/ /\ LaunchFails("io")
          /\ UNCHANGED <<fsAssets, ldWrites>>
    /\ UNCHANGED <<file_list, fsDex, fsLibs, dex_paths, ldCalls>>
    /\ LaunchFrame

\* load_file_landing up to `if joined_paths.is_empty() { return Ok(()) }`
LaunchFileLanding ==
    /\ ldPhase = "assets"
    /\ LET fs == LandFiles(file_list, 0, ldAbi,
                           [dex |-> fsDex, libs |-> fsLibs, paths |-> <<>>,
                            writes |-> ldWrites])
       IN  /\ fsDex' = fs.dex
           /\ fsLibs' = fs.libs
           /\ dex_paths' = fs.paths
           /\ ldWrites' = fs.writes
           /\ ldPhase' = IF fs.paths = <<>> THEN "done" ELSE "new_string"
    /\ UNCHANGED <<file_list, fsAssets, ldCalls, ldError>>
    /\ LaunchFrame

\* env.new_string(&joined_paths)?
LaunchNewString ==
    /\ ldPhase = "new_string"
    /\ \/ ldPhase' = "add_dex2" /\ UNCHANGED ldError
       \/ LaunchFails("jni")
    /\ UNCHANGED <<file_list, fsDex, fsLibs, fsAssets, dex_paths, ldWrites, ldCalls>>
    /\ LaunchFrame

\* addDexPath(String, boolean); on failure exception_clear and the
\* one-argument variant is tried
LaunchAddDexPath2 ==
    /\ ldPhase = "add_dex2"
    /\ \E ok \in BOOLEAN :
          /\ ldCalls' = Append(ldCalls, [method |-> "addDexPath(String,boolean)",
                                         arg |-> dex_paths, ok |-> ok])
          /\ ldPhase' = IF ok THEN "native_prep" ELSE "add_dex1"
    /\ UNCHANGED <<file_list, fsDex, fsLibs, fsAssets, dex_paths, ldWrites, ldError>>
    /\ LaunchFrame

\* addDexPath(String)?
LaunchAddDexPath1 ==
    /\ ldPhase = "add_dex1"
    /\ \E ok \in BOOLEAN :
          /\ ldCalls' = Append(ldCalls, [method |-> "addDexPath(String)",
                                         arg |-> dex_paths, ok |-> ok])
          /\ IF ok THEN ldPhase' = "native_prep" /\ UNCHANGED ldError
                   ELSE LaunchFails("jni")
    /\ UNCHANGED <<file_list, fsDex, fsLibs, fsAssets, dex_paths, ldWrites>>
    /\ LaunchFrame

\* new_string(libs_dir)?, find_class(ArrayList)?, new_object?, add?
LaunchNativePathList ==
    /\ ldPhase = "native_prep"
    /\ \/ ldPhase' = "add_native" /\ UNCHANGED ldError
       \/ LaunchFails("jni")
    /\ UNCHANGED <<file_list, fsDex, fsLibs, fsAssets, dex_paths, ldWrites, ldCalls>>
    /\ LaunchFrame

\* addNativePath(Collection) with the list holding libs_dir: best effort, a
\* failure is cleared; Ok(())
LaunchAddNativePath ==
    /\ ldPhase = "add_native"
    /\ \E ok \in BOOLEAN :
          ldCalls' = Append(ldCalls, [method |-> "addNativePath(Collection)",
                                      arg |-> <<"native_libs">>, ok |-> ok])
    /\ ldPhase' = "done"
    /\ UNCHANGED <<file_list, fsDex, fsLibs, fsAssets, dex_paths, ldWrites, ldError>>
    /\ LaunchFrame

LaunchNext ==
    \/ LaunchExtractPayload
    \/ LaunchExtractAssets
    \/ LaunchFileLanding
    \/ LaunchNewString
    \/ LaunchAddDexPath2
    \/ LaunchAddDexPath1
    \/ LaunchNativePathList
    \/ LaunchAddNativePath

LaunchSpec == LaunchInit /\ [][LaunchNext]_vars

-----------------------------------------------------------------------------
(* Properties of a launch (LaunchSpec) *)

\* load_file_landing's loop has run
Landed == ldPhase \in {"new_string", "add_dex2", "add_dex1", "native_prep", "add_native", "done"}
              \/ (ldPhase = "failed" /\ ldError = "jni")

\* the files this launch created below <cache>/native_libs
LibWrites == {w \in ldWrites : w.dir = "native_libs"}

(* C22  A launch creates below <cache>/native_libs exactly the decrypted    *)
(* entries whose name starts with lib/<current_abi>/ and ends with .so,     *)
(* under the name without that prefix; the bytes of an entry below another  *)
(* ABI directory are written to no file, and the ABI never changes          *)
C22_OnlyCurrentAbi ==
    /\ ~Landed => LibWrites = {}
    /\ Landed
          => /\ \A w \in LibWrites :
                    \E k \in 1..Len(file_list) :
                        /\ file_list[k][1] = lib_prefix(ldAbi) \o w.name
                        /\ EndsWith(file_list[k][1], STR_SO)
                        /\ file_list[k][2] = w.data
             /\ \A k \in 1..Len(file_list) :
                    LET name == file_list[k][1]
                        data == file_list[k][2]
                    IN  /\ (StartsWith(name, lib_prefix(ldAbi)) /\ EndsWith(name, STR_SO))
                              => /\ [dir |-> "native_libs",
                                     name |-> Drop(name, Len(lib_prefix(ldAbi))),
                                     data |-> data] \in LibWrites
                                 /\ [name |-> Drop(name, Len(lib_prefix(ldAbi))),
                                     data |-> data] \in fsLibs
                        /\ (StartsWith(name, STR_LIB_DIR) /\ ~StartsWith(name, lib_prefix(ldAbi)))
                              => /\ \A w \in ldWrites : w.data # data
                                 /\ \A f \in fsLibs : f.data # data

C22_Witness ==
    /\ ldPhase = "done"
    /\ ldAbi = ABI_ARM64
    /\ \E k, l \in 1..Len(file_list) :
          /\ StartsWith(file_list[k][1], lib_prefix(ABI_ARM64))
          /\ StartsWith(file_list[l][1], lib_prefix(ABI_X86))
          /\ LibWrites = {[dir |-> "native_libs", name |-> <<97>> \o STR_SO,
                           data |-> file_list[k][2]]}

\* the calls of a method made on the target class loader so far
CallsOf(method) == {c \in 1..Len(ldCalls) : ldCalls[c].method = method}

(* C23  When both the two-argument and the one-argument addDexPath fail on  *)
(* the target class loader, the launch goes on to splice the landed dex     *)
(* files into the target's pathList.dexElements, and it writes that field   *)
(* in no other case                                                         *)
C23_FallbackSplice ==
    LET bothFailed ==
            /\ \E c \in CallsOf("addDexPath(String,boolean)") : ~ldCalls[c].ok
            /\ \E c \in CallsOf("addDexPath(String)") : ~ldCalls[c].ok
    IN  /\ (bothFailed /\ ldPhase \in {"done", "failed"})
              => CallsOf("pathList.dexElements") # {}
        /\ CallsOf("pathList.dexElements") # {} => bothFailed

\* the positions of the payload entries named assets/...
AssetEntries == {k \in 1..Len(file_list) : StartsWith(file_list[k][1], STR_ASSETS)}

(* C24  After a successful load kapp_assets.zip holds exactly the decrypted *)
(* entries named assets/..., each once, under its own name and with its     *)
(* decrypted bytes, in payload order and stored without compression; no dex *)
(* or library entry of the payload is in it                                 *)
C24_AssetsZip ==
    ldPhase = "done"
        => /\ Len(fsAssets) = 1
           /\ LET zip == fsAssets[1]
              IN  /\ Len(zip) = Cardinality(AssetEntries)
                  /\ \A j \in 1..Len(zip) :
                        \E k \in AssetEntries :
                            /\ Cardinality({l \in AssetEntries : l <= k}) = j
                            /\ zip[j].name = file_list[k][1]
                            /\ zip[j].data = file_list[k][2]
                            /\ zip[j].method = "Stored"

C24_Witness ==
    /\ ldPhase = "done"
    /\ Cardinality(AssetEntries) = 2
    /\ Len(file_list) = 3
    /\ ~StartsWith(file_list[2][1], STR_ASSETS)
    /\ Len(fsAssets[1]) = 2

(* C25  Whenever a path <cache>/dex_landing/payload_<i>.dex is handed to    *)
(* addDexPath, the file holds exactly the decrypted bytes of entry i of     *)
(* this launch's payload, also when a read-only file of that name was left  *)
(* by an earlier launch; distinct dex entries have distinct paths, listed   *)
(* in payload order                                                         *)
C25_LandedDexIsCurrent ==
    \A c \in CallsOf("addDexPath(String,boolean)") \cup CallsOf("addDexPath(String)") :
        LET paths == ldCalls[c].arg
        IN  /\ \A j \in 1..Len(paths) :
                  /\ EndsWith(file_list[paths[j] + 1][1], DexSuffix)
                  /\ fsDex[paths[j]] = <<[data |-> file_list[paths[j] + 1][2], readonly |-> TRUE]>>
            /\ \A j, l \in 1..Len(paths) : j < l => paths[j] < paths[l]
            /\ Len(paths) = Cardinality(DexPaths(file_list))

(* C26  In every launch whose load_file_landing returns Ok after writing at *)
(* least one library of the current ABI to <cache>/native_libs,             *)
(* addNativePath was attempted on the target class loader with a            *)
(* one-element collection holding that directory, also when the payload     *)
(* holds no dex entry                                                       *)
C26_NativePathAttempted ==
    (ldPhase = "done" /\ LibWrites # {})
        => \E c \in CallsOf("addNativePath(Collection)") : ldCalls[c].arg = <<"native_libs">>

\* the records of a blob's metadata descriptor, as decrypt_payload reads
\* them before it decrypts anything
BlobRecords(encrypted_data) ==
    LET metadata_size == U32FromLE(SubSeq(encrypted_data, Len(encrypted_data) - 8,
                                          Len(encrypted_data) - 5))
        metadata_start == Len(encrypted_data) - FOOTER_LEN - metadata_size.lo
        metadata == SubSeq(encrypted_data, metadata_start + 1,
                           metadata_start + metadata_size.lo)
    IN  ParseRecords(metadata, 4, 0, U32FromLE(SubSeq(metadata, 1, 4)), <<>>).recs

(* C28  decrypt_payload returns an error or the complete list of entries in *)
(* metadata order, never a part of it; when an entry of the payload fails   *)
(* to authenticate the launch writes no asset zip, lands no dex or library  *)
(* file and calls no method of the class loader                             *)
C28_AllOrNothing ==
    LET recs == BlobRecords(ldBlob)
    IN  /\ file_list # <<>>
              => /\ Len(file_list) = Len(recs)
                 /\ \A k \in 1..Len(recs) : file_list[k][1] = recs[k].name
                 /\ ldTamper = "none"
        /\ ldTamper # "none"
              => /\ ldPhase \in {"start", "failed"}
                 /\ file_list = <<>>
                 /\ ldWrites = {}
                 /\ ldCalls = <<>>
        /\ (ldTamper = "none" /\ ldPhase \notin {"start", "failed"}) => file_list # <<>>

C28_Witness ==
    /\ ldPhase = "failed"
    /\ ldError = "crypto"
    /\ ldTamper = "last"
    /\ Len(BlobRecords(ldBlob)) = 3
    /\ fsAssets # <<>>

(* C29  The output archive never holds two entries of the same name: the    *)
(* entries copied from the target, the renumbered bootstrap and retained    *)
(* dex sections, the injected lib/<abi>/libshell.so and                     *)
(* assets/kapp_payload.bin differ pairwise in their names                   *)
C29_DistinctOutputNames ==
    \A i, j \in 1..Len(output) : i < j => output[i].name # output[j].name

-----------------------------------------------------------------------------
(* The GUI driver: crabshell-gui/src-tauri/src/main.rs.  HardeningState holds
   one slot, process: Arc<Mutex<Option<Child>>>.  Every block that holds the
   mutex is one step; start_hardening takes the mutex twice, once to look at
   the slot and once to fill it, and spawns the child in between with the
   mutex released. *)

CommandThreads == 1..NumCommandThreads
Children == 1..MaxChildren

\* what happens to the rest of the module's state while the GUI runs
GuiFrame == UNCHANGED <<codecVars, loaderVars, historyVars, packerVars, landingVars>>

GuiInit ==
    /\ phase = "gui"
    /\ inEntries = <<>>
    /\ encEntries = <<>>
    /\ packedBlob = <<>>
    /\ blob = <<>>
    /\ tamper = NoTamper
    /\ result = NoResult
    /\ apk = [blob |-> <<>>, hash |-> <<>>, certOk |-> TRUE]
    /\ LoaderIdle
    /\ PackerIdle
    /\ LandingIdle
    /\ GuiIdle

\* the children that are running
Running == {n \in Children : child[n] = "running"}

\* start_hardening, first block: under the mutex, a filled slot ends the call
\* with the already-running error; an empty one lets it go on.  The mutex is
\* released at the end of the block.
StartCheck(c) ==
    /\ gpc[c] = "idle"
    /\ \E n \in Children : child[n] = "none"
    /\ IF process # 0
       THEN /\ startResult' = [startResult EXCEPT ![c] = "already_running"]
            /\ UNCHANGED gpc
       ELSE /\ gpc' = [gpc EXCEPT ![c] = "checked"]
            /\ UNCHANGED startResult
    /\ UNCHANGED <<process, child, spawned, monitor, spawnedWhileRunning, dropped>>
    /\ GuiFrame

\* start_hardening, between the blocks: pack.py is located and the command is
\* spawned with the mutex released; either can fail and end the call.
StartSpawn(c) ==
    /\ gpc[c] = "checked"
    /\ \/ /\ gpc' = [gpc EXCEPT ![c] = "idle"]
          /\ startResult' = [startResult EXCEPT ![c] = "error"]
          /\ UNCHANGED <<child, spawned, spawnedWhileRunning>>
       \/ /\ \E n \in Children : child[n] = "none"
          /\ LET n == CHOOSE i \in Children :
                          child[i] = "none" /\ \A j \in Children : child[j] = "none" => i <= j
             IN  /\ child' = [child EXCEPT ![n] = "running"]
                 /\ spawned' = [spawned EXCEPT ![c] = n]
                 /\ spawnedWhileRunning' = (spawnedWhileRunning \/ Running # {})
          /\ gpc' = [gpc EXCEPT ![c] = "spawned"]
          /\ UNCHANGED startResult
    /\ UNCHANGED <<process, monitor, dropped>>
    /\ GuiFrame

\* start_hardening, second block and the rest: under the mutex the slot is
\* overwritten with the new child, whatever it held; the reader and monitor
\* threads are spawned and the call returns Ok.  The Child the slot held is
\* dropped, which neither kills nor waits for the process.
StartStore(c) ==
    /\ gpc[c] = "spawned"
    /\ process' = spawned[c]
    /\ dropped' = dropped \cup (IF process # 0 /\ child[process] = "running"
                                THEN {process} ELSE {})
    /\ monitor' = [monitor EXCEPT ![spawned[c]] = "polling"]
    /\ spawned' = [spawned EXCEPT ![c] = 0]
    /\ gpc' = [gpc EXCEPT ![c] = "idle"]
    /\ startResult' = [startResult EXCEPT ![c] = "ok"]
    /\ UNCHANGED <<child, spawnedWhileRunning>>
    /\ GuiFrame

\* cancel_hardening: under the mutex for the whole call; the child in the slot
\* is killed and the slot emptied, and a failed kill returns with the slot as
\* it was.
CancelHardening(c) ==
    /\ gpc[c] = "idle"
    /\ \/ /\ process' = 0
          /\ child' = IF process # 0 /\ child[process] = "running"
                      THEN [child EXCEPT ![process] = "killed"]
                      ELSE child
       \/ /\ process # 0
          /\ UNCHANGED <<process, child>>
    /\ UNCHANGED <<gpc, spawned, monitor, startResult, spawnedWhileRunning, dropped>>
    /\ GuiFrame

\* the child process comes to its end by itself
ChildExits(n) ==
    /\ child[n] = "running"
    /\ child' = [child EXCEPT ![n] = "exited"]
    /\ UNCHANGED <<process, gpc, spawned, monitor, startResult, spawnedWhileRunning,
                   dropped>>
    /\ GuiFrame

\* one round of a monitor thread's loop, under the mutex: an empty slot ends
\* the thread; a child that has ended is waited for, the slot is emptied and the
\* thread ends (the Ok(Some) and Err arms of try_wait both do this); a child
\* still running leaves everything as it is until the next round.  The thread
\* looks at whichever child the slot holds at that moment.
MonitorPoll(n) ==
    /\ monitor[n] = "polling"
    /\ IF process = 0
       THEN /\ monitor' = [monitor EXCEPT ![n] = "ended"]
            /\ UNCHANGED <<process, child>>
       ELSE /\ child[process] \in {"exited", "killed"}
            /\ child' = [child EXCEPT ![process] = "reaped"]
            /\ process' = 0
            /\ monitor' = [monitor EXCEPT ![n] = "ended"]
    /\ UNCHANGED <<gpc, spawned, startResult, spawnedWhileRunning, dropped>>
    /\ GuiFrame

GuiNext ==
    \/ \E c \in CommandThreads : StartCheck(c)
    \/ \E c \in CommandThreads : StartSpawn(c)
    \/ \E c \in CommandThreads : StartStore(c)
    \/ \E c \in CommandThreads : CancelHardening(c)
    \/ \E n \in Children : ChildExits(n)
    \/ \E n \in Children : MonitorPoll(n)

GuiSpec == GuiInit /\ [][GuiNext]_vars

\* C30: in the GUI driver, however start_hardening calls, cancel_hardening
\* calls and the monitor threads interleave, at most one spawned child is
\* running at a time, no child is spawned while another one is running, and no
\* child leaves the process slot without having exited or been killed.
C30_OneChildAtATime ==
    /\ Cardinality(Running) <= 1
    /\ ~spawnedWhileRunning
    /\ dropped = {}

====
